---- MODULE Spec2Model ----
(***************************************************************************)
(* The hub of vstats: agent sessions (server/src/websocket.rs), the update *)
(* command handler, delete_server and get_all_metrics (handlers.rs), and   *)
(* the dashboard attach snapshot.                                          *)
(*                                                                         *)
(* Every task is a small program counter machine.  A step of the model is  *)
(* the code between two suspension points at which the task can be held up *)
(* by another task: the acquisition of an async lock, a send into the      *)
(* bounded command inbox, the select! of the session loop.                 *)
(*                                                                         *)
(* The three tokio RwLocks are not variables: who holds or awaits a lock   *)
(* is determined by the program counters (see the "locks" section).        *)
(*                                                                         *)
(* ws_out, metrics_tx and http_out are output ports: they hold what the    *)
(* last step wrote to an agent socket, sent on the broadcast channel or    *)
(* returned to an HTTP caller, and are empty after a step that wrote       *)
(* nothing.                                                                *)
(***************************************************************************)
EXTENDS Integers, Sequences, FiniteSets, TLC

\* ------------------------------------------------------------------ bounds

\* Wall clock limit (milliseconds); the clock stops advancing there.
MaxNow == 30000

\* Capacity of a session's command inbox in the model.  The code creates
\* the channel with capacity 16 (websocket.rs:112); the model scales it
\* down, the behaviour at "full" does not depend on the number.
InboxCapacity == 2

\* Capacity of the broadcast channel in the model.  The code creates it
\* with capacity 16 (main.rs:573); what happens to a receiver that has more
\* than the capacity unread does not depend on the number.
BroadcastCapacity == 2

\* Frames the agent can have written to its socket that the hub has not
\* read yet (the socket buffers); a write waits for room beyond that.
SocketCapacity == 2

\* Unix time, in seconds, at which the hub was started (a day boundary).
\* The store is a file: it holds the rows written before that.
StartedAt == 34560000

\* ------------------------------------------------------- program constants

\* `num_seconds() < 30` of the online test
ONLINE_WINDOW_SECS == 30

\* the selector of the 24h query: `% 300) < 60`
DECIMATION_PERIOD_SECS == 300
DECIMATION_SLOT_SECS   == 60

\* the agent's reconnect delays, in seconds
INITIAL_RECONNECT_DELAY == 5
MAX_RECONNECT_DELAY == 60

\* ------------------------------------------------------------ value spaces

NULL == "null"

ServerIds == {"srv-1", "srv-2"}
UnknownId == "srv-x"
Sessions  == {"A", "B"}

\* the token stored in the server record at registration
TokenOf(id) == IF id = "srv-1" THEN "t1" ELSE "t2"
WrongToken  == "wrong"

\* peer address recorded at accept
client_ip == [s \in Sessions |-> "198.51.100.1"]

\* SystemMetrics, reduced to the fields the hub looks at.  ip_addresses is
\* an Option<Vec<String>>: None and Some([]) both give no first address and
\* are the empty sequence here.
SampleA == [timestamp |-> 2, version |-> "1.1", ip_addresses |-> <<"192.0.2.7">>, cpu_usage |-> 40]
SampleB == [timestamp |-> 1, version |-> NULL,  ip_addresses |-> << >>, cpu_usage |-> 20]
Samples == {SampleA, SampleB}

\* Option<T> for a structured T: << >> is None, <<x>> is Some(x)
None    == << >>
Some(x) == <<x>>

\* One WebSocket message as the session's receiver yields it.
\*  ws     : "text", "close", "binary" (binary/ping/pong), "error" (Some(Err)), "eof" (None)
\*  parsed : whether serde_json::from_str::<AgentMessage> succeeds on the text
Frame(ws, parsed, t, id, tok, m) ==
  [ws |-> ws, parsed |-> parsed, msg_type |-> t, server_id |-> id, token |-> tok, metrics |-> m]

NoFrame == Frame("none", FALSE, "", NULL, NULL, None)

AuthFrame(id, tok) == Frame("text", TRUE, "auth", id, tok, None)
MetricsFrame(m)    == Frame("text", TRUE, "metrics", NULL, NULL, m)

AuthFrames ==
  { AuthFrame(id, TokenOf(id)) : id \in ServerIds } \cup
  { AuthFrame("srv-1", WrongToken), AuthFrame(UnknownId, "t1"),
    AuthFrame("srv-1", NULL), AuthFrame(NULL, "t1") }

MetricsFrames == { MetricsFrame(Some(m)) : m \in Samples } \cup { MetricsFrame(None) }

OtherFrames ==
  { Frame("text", TRUE, "hello", NULL, NULL, None),
    Frame("text", FALSE, "", NULL, NULL, None),
    Frame("binary", FALSE, "", NULL, NULL, None) }

EndFrames ==
  { Frame("close", FALSE, "", NULL, NULL, None),
    Frame("error", FALSE, "", NULL, NULL, None),
    Frame("eof", FALSE, "", NULL, NULL, None) }

InboundFrames == AuthFrames \cup MetricsFrames \cup OtherFrames \cup EndFrames

\* Frames the hub writes to an agent socket, as JSON objects.
NoOut            == [type |-> "none"]
AuthOk           == [type |-> "auth", status |-> "ok"]
AuthError(m)     == [type |-> "auth", status |-> "error", message |-> m]
NotAuthenticated == [type |-> "error", message |-> "Not authenticated"]

DownloadUrls == {NULL, "https://example.test/agent"}

\* variant of CommandJson that always writes the download_url key
CommandJsonWithNull(cmd) ==
  [type |-> cmd.cmd_type, command |-> cmd.command, download_url |-> cmd.download_url]

\* serde_json::to_string(&AgentCommand): download_url carries
\* skip_serializing_if = "Option::is_none", so the key is left out for None.
CommandJson(cmd) ==
  IF cmd.download_url = NULL
    THEN [type |-> cmd.cmd_type, command |-> cmd.command]
    ELSE [type |-> cmd.cmd_type, command |-> cmd.command, download_url |-> cmd.download_url]

AgentCommand(url) == [cmd_type |-> "command", command |-> "update", download_url |-> url]

\* UpdateAgentResponse
NoResponse   == [success |-> FALSE, message |-> ""]
Response(ok, m) == [success |-> ok, message |-> m]

\* dashboard connections
Dashboards == {"D1", "D2"}

\* Frames written to a dashboard socket.
NoDashOut == [type |-> "none"]

\* serde_json::to_string(&SystemMetrics) of the hub's own host, reduced
LocalMetrics(t) == [timestamp |-> t, hostname |-> "hub"]

\* an empty table
NoRows == [k \in {} |-> [cpu_usage |-> 0]]

\* the port after a step that answered no history query
NoHistory == [sent |-> FALSE, server_id |-> NULL, range |-> "", data |-> << >>]

\* The config file: the document that was last written to it, and whether
\* all of that document is there.
ConfigFile(doc, whole) == [doc |-> doc, whole |-> whole]

\* outcomes of fs::write(path, content): Ok; Err before the file is touched
\* (it cannot be opened); Err after the file was truncated and a part of
\* the content written
WriteOutcomes == {"ok", "failed", "torn"}

\* save_config: serde_json::to_string_pretty, fs::write(&path, content).ok()
save_config(file, cfg, w) ==
  CASE w = "ok"     -> ConfigFile(cfg, TRUE)
    [] w = "failed" -> file
    [] w = "torn"   -> ConfigFile(cfg, FALSE)

\* A file beside the agent's executable: what it holds and whether its mode
\* lets it be executed.
File(bytes, exec) == [bytes |-> bytes, exec |-> exec]
Absent == File("absent", FALSE)

\* the agent process before any update command: it runs the installed
\* binary and sits in the select! loop of connect_and_run
\*   reconnect_delay : the local of `run`, seconds
\*   result          : what the last connect_and_run returned ("none" before the first)
\*   conn            : the other end of the open connection: a session of the hub,
\*                     "peer" (a hub that is not part of the model) or "none"
\*   used            : the sessions of the hub its connections were accepted as
\*   cred            : config.server_id and config.agent_token
\*   out, got        : the frame written, the message read, by its last step
AgentStart ==
  [pc |-> "run", exe |-> File("old", TRUE), new |-> Absent, backup |-> Absent,
   url |-> NULL, log |-> << >>, out |-> "none", got |-> "none",
   reconnect_delay |-> INITIAL_RECONNECT_DELAY, result |-> "none",
   conn |-> "peer", used |-> {},
   cred |-> [server_id |-> "srv-1", token |-> TokenOf("srv-1")]]

\* ---------------------------------------------------------------- variables

VARIABLES
  now,                      \* Utc::now(), milliseconds
  config,                   \* config.servers: id -> [token, version, ip]
  agent_metrics,            \* state.agent_metrics: id -> [metrics, last_updated]
  agent_connections,        \* state.agent_connections: id -> session owning the inbox
  metrics_raw,              \* the raw table: <<server_id, timestamp>> -> the row's columns
  pc,                       \* per session: position in handle_agent_socket
  authenticated_server_id,  \* per session: the local of that name
  cur,                      \* per session: the frame being processed
  inbox,                    \* per session: contents of the mpsc command channel
  upd,                      \* the update_agent request in progress
  del,                      \* the delete_server request in progress
  api,                      \* the snapshot request in progress (attach, /api/metrics/all)
  ws_out,                   \* per session: frame written to the agent by the last step
  metrics_tx,               \* what the last step sent on the broadcast channel
  http_out,                 \* what the last step returned from update_agent
  api_out,                  \* snapshot the last step sent to a dashboard / HTTP caller
  dash,                     \* per dashboard: position in handle_dashboard_socket,
                            \*   and its broadcast receiver `rx`
  dash_out,                 \* per dashboard: frame written to its socket by the last step
  metrics_hourly,           \* rows of the hourly table, in insertion order
  metrics_daily,            \* rows of the daily table, in insertion order
  history_out,              \* what the last step returned from get_history
  config_file,              \* the config document on disk
  agent,                    \* the agent process: position in run, connect_and_run and
                            \*   handle_update_command, and the files beside its executable
  to_hub,                   \* per session: frames the agent has written to the socket
                            \*   of that session and the session has not read yet
  to_agent                  \* per session: frames the session has written to the agent's
                            \*   socket and the agent has not read yet

vars == <<now, config, agent_metrics, agent_connections, metrics_raw, pc,
          authenticated_server_id, cur, inbox, upd, del, api,
          ws_out, metrics_tx, http_out, api_out, dash, dash_out,
          metrics_hourly, metrics_daily, history_out, config_file, agent,
          to_hub, to_agent>>

\* ------------------------------------------------------ finite map helpers

Put(f, k, v) == [x \in (DOMAIN f) \cup {k} |-> IF x = k THEN v ELSE f[x]]
Remove(f, k) == [x \in (DOMAIN f) \ {k} |-> f[x]]

\* -------------------------------------------------------------------- locks
\* tokio::sync::RwLock is write-preferring: a reader is not admitted while a
\* writer holds the lock or is queued for it; a writer is admitted when no
\* reader and no writer holds it.  A task holds a lock from the step that
\* acquired it until the step that drops the guard.

\* state.config
ConfigReadHeld ==
  \/ \E s \in Sessions : pc[s] \in {"auth_conn", "c_met"}
  \/ api.pc = "met"
  \/ \E d \in Dashboards : dash[d].pc = "met"
ConfigWriteHeld    == del.pc = "del_met"
ConfigWriteWaiting == (\E s \in Sessions : pc[s] = "m_cfg") \/ del.pc = "del_cfg"
ConfigReadable     == ~ConfigWriteHeld /\ ~ConfigWriteWaiting
ConfigWritable     == ~ConfigWriteHeld /\ ~ConfigReadHeld

\* state.agent_metrics
MetricsWriteHeld    == \E s \in Sessions : pc[s] = "m_bcast"
MetricsWriteWaiting == (\E s \in Sessions : pc[s] = "m_reg") \/ del.pc = "del_met"
MetricsReadable     == ~MetricsWriteHeld /\ ~MetricsWriteWaiting
MetricsWritable     == ~MetricsWriteHeld

\* a session task between agent_metrics.write() and the end of its arm
HoldsMetricsLock(s) == pc[s] = "m_bcast"

\* a session task suspended in config.read() or config.write()
AwaitsConfigLock(s) == pc[s] \in {"auth_cfg", "m_cfg", "m_bcast", "c_cfg"}

\* state.agent_connections
ConnReadHeld     == upd.pc \in {"u_send", "u_wait"}
ConnWriteWaiting == \E s \in Sessions : pc[s] \in {"auth_conn", "c_conn"}
ConnReadable     == ~ConnWriteWaiting
ConnWritable     == ~ConnReadHeld

\* ------------------------------------------------------- snapshot composer

\* chrono::Duration::num_seconds: whole seconds, truncated toward zero
NumSeconds(ms) == IF ms >= 0 THEN ms \div 1000 ELSE -((-ms) \div 1000)

\* variant of Online whose window includes the 30th second
OnlineInclusive(metrics, id, t) ==
  IF id \in DOMAIN metrics
    THEN NumSeconds(t - metrics[id].last_updated) <= ONLINE_WINDOW_SECS
    ELSE FALSE

\* metrics_data.map(|m| now - m.last_updated < 30 s).unwrap_or(false)
Online(metrics, id, t) ==
  IF id \in DOMAIN metrics
    THEN NumSeconds(t - metrics[id].last_updated) < ONLINE_WINDOW_SECS
    ELSE FALSE

\* one ServerMetricsUpdate
ServerMetricsUpdate(cfg, metrics, id, online) ==
  [ version |-> IF id \in DOMAIN metrics /\ metrics[id].metrics.version # NULL
                  THEN metrics[id].metrics.version
                  ELSE cfg[id].version,
    ip      |-> cfg[id].ip,
    online  |-> online,
    metrics |-> IF id \in DOMAIN metrics THEN Some(metrics[id].metrics) ELSE None ]

\* the `updates` vector built after an accepted sample
IngestUpdates(cfg, metrics, t) ==
  [id \in DOMAIN cfg |-> ServerMetricsUpdate(cfg, metrics, id, Online(metrics, id, t))]

\* variant of DisconnectUpdates that applies the window to the leaving server too
DisconnectUpdatesByWindow(cfg, metrics, t, leaving) ==
  [id \in DOMAIN cfg |-> ServerMetricsUpdate(cfg, metrics, id, Online(metrics, id, t))]

\* the `updates` vector built in the cleanup of the session bound to `leaving`
DisconnectUpdates(cfg, metrics, t, leaving) ==
  [id \in DOMAIN cfg |->
     ServerMetricsUpdate(cfg, metrics, id,
                         IF id = leaving THEN FALSE ELSE Online(metrics, id, t))]

\* the `updates` vector of a dashboard attach
AttachUpdates(cfg, metrics, t) ==
  [id \in DOMAIN cfg |-> ServerMetricsUpdate(cfg, metrics, id, Online(metrics, id, t))]

\* the `updates` vector of GET /api/metrics/all
AllMetricsUpdates(cfg, metrics, t) ==
  [id \in DOMAIN cfg |-> ServerMetricsUpdate(cfg, metrics, id, Online(metrics, id, t))]

DashboardMessage(servers, settings) ==
  [type |-> "metrics", servers |-> servers, site_settings |-> settings]

NoServers == [id \in {} |-> FALSE]

NoBroadcast == [sent |-> FALSE, by |-> "", trigger |-> "",
                msg |-> DashboardMessage(NoServers, FALSE)]
Broadcast(s, trigger, servers) ==
  [sent |-> TRUE, by |-> s, trigger |-> trigger, msg |-> DashboardMessage(servers, FALSE)]

NoApiOut == [sent |-> FALSE, kind |-> "", servers |-> NoServers, site_settings |-> FALSE]

Quiet == [s \in Sessions |-> NoOut]

DashQuiet == [d \in Dashboards |-> NoDashOut]
DashWrote(d, f) == [e \in Dashboards |-> IF e = d THEN f ELSE NoDashOut]

\* ------------------------------------------------------- broadcast channel
\* tokio::sync::broadcast: every receiver reads every value sent after it
\* subscribed, in the order sent; the channel retains the last
\* BroadcastCapacity values, so a receiver with more than that unread has
\* lost the oldest ones and its next recv() returns Err(Lagged).  A
\* receiver is the queue of retained values it has not read yet and the
\* mark that it has lost some.

NoReceiver == [unread |-> << >>, lagged |-> FALSE]

Subscribed(d) == dash[d].pc \in {"cfg", "met", "fwd"}

\* what Sender::send(m) does to one receiver
Receive(rx, m) ==
  IF Len(rx.unread) < BroadcastCapacity
    THEN [rx EXCEPT !.unread = Append(@, m)]
    ELSE [unread |-> Append(Tail(rx.unread), m), lagged |-> TRUE]

\* metrics_tx.send(m): to every live receiver; the producer never waits
BroadcastSend(dashes, m) ==
  [d \in Dashboards |->
     IF dashes[d].pc \in {"cfg", "met", "fwd"}
       THEN [dashes[d] EXCEPT !.rx = Receive(@, m)]
       ELSE dashes[d]]
Wrote(s, f) == [t \in Sessions |-> IF t = s THEN f ELSE NoOut]

\* --------------------------------------------------- the agent's connection
\* Of the sockets the hub writes to, that of the agent process of the model
\* is part of the model: a frame a session writes to it is in flight until
\* the agent reads it.  Frames written to other peers leave the model.
Deliver(down, out) ==
  IF agent.conn \in Sessions /\ out[agent.conn] # NoOut
    THEN [down EXCEPT ![agent.conn] = Append(@, out[agent.conn])]
    ELSE down

\* --------------------------------------------------------------------- Init

\* the hub after construction
InitHub ==
  /\ now = 0
  /\ config = [id \in ServerIds |-> [token |-> TokenOf(id), version |-> "", ip |-> ""]]
  /\ agent_metrics = [id \in {} |-> [metrics |-> CHOOSE m \in Samples : TRUE, last_updated |-> 0]]
  /\ agent_connections = [id \in {} |-> "A"]
  /\ pc = [s \in Sessions |-> "loop"]
  /\ authenticated_server_id = [s \in Sessions |-> NULL]
  /\ cur = [s \in Sessions |-> NoFrame]
  /\ inbox = [s \in Sessions |-> << >>]
  /\ upd = [pc |-> "idle", server_id |-> NULL, download_url |-> NULL, sender |-> NULL]
  /\ del = [pc |-> "idle", id |-> NULL]
  /\ api = [pc |-> "idle", kind |-> ""]
  /\ ws_out = Quiet
  /\ metrics_tx = NoBroadcast
  /\ http_out = NoResponse
  /\ api_out = NoApiOut
  /\ dash = [d \in Dashboards |-> [pc |-> "off", rx |-> NoReceiver]]
  /\ dash_out = DashQuiet
  /\ history_out = NoHistory
  /\ config_file = ConfigFile(config, TRUE)
  /\ to_hub = [s \in Sessions |-> << >>]
  /\ to_agent = [s \in Sessions |-> << >>]

\* a hub with an empty store, and an agent that was never updated
Init ==
  /\ InitHub
  /\ metrics_raw = NoRows
  /\ metrics_hourly = << >>
  /\ metrics_daily = << >>
  /\ agent = AgentStart

\* ------------------------------------------------- agent session: the loop

\* variant of Dispatch whose metrics arm does not look at the session binding
DispatchNoGate(s, f) ==
  IF f.ws \in {"close", "error", "eof"} THEN "break"
  ELSE IF f.ws # "text" \/ ~f.parsed THEN "ignore"
  ELSE IF f.msg_type = "auth"
    THEN IF f.server_id # NULL /\ f.token # NULL THEN "auth" ELSE "ignore"
  ELSE IF f.msg_type = "metrics"
    THEN IF f.metrics # None THEN "metrics" ELSE "ignore"
  ELSE "ignore"

\* The next frame on an authenticated or unauthenticated session, up to the
\* first suspension point of its match arm.
\*   auth with both fields      -> wait for the config read lock
\*   auth lacking a field       -> nothing
\*   metrics, authenticated     -> with a sample: wait for the db; without: nothing
\*   metrics, not authenticated -> write the "Not authenticated" error frame
\*   any other text, binary     -> nothing
\*   close, error, end of stream-> leave the loop
Dispatch(s, f) ==
  IF f.ws \in {"close", "error", "eof"} THEN "break"
  ELSE IF f.ws # "text" \/ ~f.parsed THEN "ignore"
  ELSE IF f.msg_type = "auth"
    THEN IF f.server_id # NULL /\ f.token # NULL THEN "auth" ELSE "ignore"
  ELSE IF f.msg_type = "metrics"
    THEN IF authenticated_server_id[s] # NULL
           THEN IF f.metrics # None THEN "metrics" ELSE "ignore"
           ELSE "reject"
  ELSE "ignore"

\* where the session goes when the loop is left
AfterLoop(s) == IF authenticated_server_id[s] # NULL THEN "c_conn" ELSE "done"

\* variant of Recv that answers a frame it does not act on with an error frame
RecvAnswering(s, f) ==
  /\ pc[s] = "loop"
  /\ LET d == Dispatch(s, f) IN
       /\ pc' = [pc EXCEPT ![s] =
                   CASE d = "auth"    -> "auth_cfg"
                     [] d = "metrics" -> "m_db"
                     [] d = "break"   -> AfterLoop(s)
                     [] OTHER         -> "loop"]
       /\ cur' = [cur EXCEPT ![s] = IF d \in {"auth", "metrics"} THEN f ELSE NoFrame]
       /\ ws_out' = IF d \in {"reject", "ignore"} THEN Wrote(s, NotAuthenticated) ELSE Quiet
  /\ metrics_tx' = NoBroadcast /\ http_out' = NoResponse /\ api_out' = NoApiOut
  /\ UNCHANGED <<now, config, agent_metrics, agent_connections, metrics_raw,
                 authenticated_server_id, inbox, upd, del, api>>
  /\ dash_out' = DashQuiet
  /\ history_out' = NoHistory
  /\ UNCHANGED <<metrics_hourly, metrics_daily, config_file, agent, to_hub>>
  /\ to_agent' = Deliver(to_agent, ws_out')
  /\ UNCHANGED dash

\* msg = receiver.next()
Recv(s, f) ==
  /\ pc[s] = "loop"
  /\ LET d == Dispatch(s, f) IN
       /\ pc' = [pc EXCEPT ![s] =
                   CASE d = "auth"    -> "auth_cfg"
                     [] d = "metrics" -> "m_db"
                     [] d = "break"   -> AfterLoop(s)
                     [] OTHER         -> "loop"]
       /\ cur' = [cur EXCEPT ![s] = IF d \in {"auth", "metrics"} THEN f ELSE NoFrame]
       /\ ws_out' = IF d = "reject" THEN Wrote(s, NotAuthenticated) ELSE Quiet
  /\ metrics_tx' = NoBroadcast /\ http_out' = NoResponse /\ api_out' = NoApiOut
  /\ UNCHANGED <<now, config, agent_metrics, agent_connections, metrics_raw,
                 authenticated_server_id, inbox, upd, del, api>>
  /\ dash_out' = DashQuiet
  /\ history_out' = NoHistory
  /\ UNCHANGED <<metrics_hourly, metrics_daily, config_file, agent, to_hub>>
  /\ to_agent' = Deliver(to_agent, ws_out')
  /\ UNCHANGED dash

\* msg = receiver.next() on the connection of the agent of the model: the
\* oldest frame in flight is read and dispatched as in Recv
RecvFromAgent(s) ==
  /\ pc[s] = "loop"
  /\ to_hub[s] # << >>
  /\ LET f == Head(to_hub[s])
         d == Dispatch(s, f) IN
       /\ pc' = [pc EXCEPT ![s] =
                   CASE d = "auth"    -> "auth_cfg"
                     [] d = "metrics" -> "m_db"
                     [] d = "break"   -> AfterLoop(s)
                     [] OTHER         -> "loop"]
       /\ cur' = [cur EXCEPT ![s] = IF d \in {"auth", "metrics"} THEN f ELSE NoFrame]
       /\ ws_out' = IF d = "reject" THEN Wrote(s, NotAuthenticated) ELSE Quiet
  /\ to_hub' = [to_hub EXCEPT ![s] = Tail(@)]
  /\ to_agent' = Deliver(to_agent, ws_out')
  /\ metrics_tx' = NoBroadcast /\ http_out' = NoResponse /\ api_out' = NoApiOut
  /\ dash_out' = DashQuiet /\ history_out' = NoHistory
  /\ UNCHANGED <<now, config, agent_metrics, agent_connections, metrics_raw,
                 authenticated_server_id, inbox, upd, del, api, dash,
                 metrics_hourly, metrics_daily, config_file, agent>>

\* variant of ForwardCommand that takes the newest command of the inbox
ForwardCommandNewest(s, ok) ==
  /\ pc[s] = "loop"
  /\ inbox[s] # << >>
  /\ inbox' = [inbox EXCEPT ![s] = SubSeq(inbox[s], 1, Len(inbox[s]) - 1)]
  /\ IF ok
       THEN /\ ws_out' = Wrote(s, inbox[s][Len(inbox[s])])
            /\ pc' = pc
       ELSE /\ ws_out' = Quiet
            /\ pc' = [pc EXCEPT ![s] = AfterLoop(s)]
  /\ metrics_tx' = NoBroadcast /\ http_out' = NoResponse /\ api_out' = NoApiOut
  /\ UNCHANGED <<now, config, agent_metrics, agent_connections, metrics_raw,
                 authenticated_server_id, cur, upd, del, api>>
  /\ dash_out' = DashQuiet
  /\ history_out' = NoHistory
  /\ UNCHANGED <<metrics_hourly, metrics_daily, config_file, agent, to_hub>>
  /\ to_agent' = Deliver(to_agent, ws_out')
  /\ UNCHANGED dash

\* variant of ForwardCommand that stays in the loop when the write fails
ForwardCommandStays(s, ok) ==
  /\ pc[s] = "loop"
  /\ inbox[s] # << >>
  /\ inbox' = [inbox EXCEPT ![s] = Tail(inbox[s])]
  /\ ws_out' = IF ok THEN Wrote(s, Head(inbox[s])) ELSE Quiet
  /\ pc' = pc
  /\ metrics_tx' = NoBroadcast /\ http_out' = NoResponse /\ api_out' = NoApiOut
  /\ UNCHANGED <<now, config, agent_metrics, agent_connections, metrics_raw,
                 authenticated_server_id, cur, upd, del, api>>
  /\ dash_out' = DashQuiet
  /\ history_out' = NoHistory
  /\ UNCHANGED <<metrics_hourly, metrics_daily, config_file, agent, to_hub>>
  /\ to_agent' = Deliver(to_agent, ws_out')
  /\ UNCHANGED dash

\* cmd = cmd_rx.recv(), then sender.send(message); `ok` is whether the
\* socket write succeeds
ForwardCommand(s, ok) ==
  /\ pc[s] = "loop"
  /\ inbox[s] # << >>
  /\ inbox' = [inbox EXCEPT ![s] = Tail(inbox[s])]
  /\ IF ok
       THEN /\ ws_out' = Wrote(s, Head(inbox[s]))
            /\ pc' = pc
       ELSE /\ ws_out' = Quiet
            /\ pc' = [pc EXCEPT ![s] = AfterLoop(s)]
  /\ metrics_tx' = NoBroadcast /\ http_out' = NoResponse /\ api_out' = NoApiOut
  /\ UNCHANGED <<now, config, agent_metrics, agent_connections, metrics_raw,
                 authenticated_server_id, cur, upd, del, api>>
  /\ dash_out' = DashQuiet
  /\ history_out' = NoHistory
  /\ UNCHANGED <<metrics_hourly, metrics_daily, config_file, agent, to_hub>>
  /\ to_agent' = Deliver(to_agent, ws_out')
  /\ UNCHANGED dash

\* ------------------------------------------------- agent session: "auth"

\* variant of AuthCheck in which a rejected auth frame unbinds the session
AuthCheckUnbinding(s) ==
  /\ pc[s] = "auth_cfg"
  /\ ConfigReadable
  /\ LET id  == cur[s].server_id
         tok == cur[s].token IN
       IF id \in DOMAIN config
         THEN IF config[id].token = tok
                THEN /\ authenticated_server_id' = [authenticated_server_id EXCEPT ![s] = id]
                     /\ pc' = [pc EXCEPT ![s] = "auth_conn"]
                     /\ cur' = cur
                     /\ ws_out' = Quiet
                ELSE /\ ws_out' = Wrote(s, AuthError("Invalid token"))
                     /\ pc' = [pc EXCEPT ![s] = "loop"]
                     /\ cur' = [cur EXCEPT ![s] = NoFrame]
                     /\ authenticated_server_id' = [authenticated_server_id EXCEPT ![s] = NULL]
         ELSE /\ ws_out' = Wrote(s, AuthError("Server not found"))
              /\ pc' = [pc EXCEPT ![s] = "loop"]
              /\ cur' = [cur EXCEPT ![s] = NoFrame]
              /\ authenticated_server_id' = [authenticated_server_id EXCEPT ![s] = NULL]
  /\ metrics_tx' = NoBroadcast /\ http_out' = NoResponse /\ api_out' = NoApiOut
  /\ UNCHANGED <<now, config, agent_metrics, agent_connections, metrics_raw,
                 inbox, upd, del, api>>
  /\ dash_out' = DashQuiet
  /\ history_out' = NoHistory
  /\ UNCHANGED <<metrics_hourly, metrics_daily, config_file, agent, to_hub>>
  /\ to_agent' = Deliver(to_agent, ws_out')
  /\ UNCHANGED dash

\* config.read(), find the server, compare the token.  On a match the local
\* authenticated_server_id is set and the config guard stays held; otherwise
\* the error frame is written and the arm ends.
AuthCheck(s) ==
  /\ pc[s] = "auth_cfg"
  /\ ConfigReadable
  /\ LET id  == cur[s].server_id
         tok == cur[s].token IN
       IF id \in DOMAIN config
         THEN IF config[id].token = tok
                THEN /\ authenticated_server_id' = [authenticated_server_id EXCEPT ![s] = id]
                     /\ pc' = [pc EXCEPT ![s] = "auth_conn"]
                     /\ cur' = cur
                     /\ ws_out' = Quiet
                ELSE /\ ws_out' = Wrote(s, AuthError("Invalid token"))
                     /\ pc' = [pc EXCEPT ![s] = "loop"]
                     /\ cur' = [cur EXCEPT ![s] = NoFrame]
                     /\ UNCHANGED authenticated_server_id
         ELSE /\ ws_out' = Wrote(s, AuthError("Server not found"))
              /\ pc' = [pc EXCEPT ![s] = "loop"]
              /\ cur' = [cur EXCEPT ![s] = NoFrame]
              /\ UNCHANGED authenticated_server_id
  /\ metrics_tx' = NoBroadcast /\ http_out' = NoResponse /\ api_out' = NoApiOut
  /\ UNCHANGED <<now, config, agent_metrics, agent_connections, metrics_raw,
                 inbox, upd, del, api>>
  /\ dash_out' = DashQuiet
  /\ history_out' = NoHistory
  /\ UNCHANGED <<metrics_hourly, metrics_daily, config_file, agent, to_hub>>
  /\ to_agent' = Deliver(to_agent, ws_out')
  /\ UNCHANGED dash

\* connections.insert(server_id, cmd_tx.clone())
RegisterSink(connections, id, s) == Put(connections, id, s)

\* agent_connections.write(), insert, drop the guard, write the "ok" frame,
\* drop the config guard
AuthRegister(s) ==
  /\ pc[s] = "auth_conn"
  /\ ConnWritable
  /\ agent_connections' = RegisterSink(agent_connections, cur[s].server_id, s)
  /\ ws_out' = Wrote(s, AuthOk)
  /\ pc' = [pc EXCEPT ![s] = "loop"]
  /\ cur' = [cur EXCEPT ![s] = NoFrame]
  /\ metrics_tx' = NoBroadcast /\ http_out' = NoResponse /\ api_out' = NoApiOut
  /\ UNCHANGED <<now, config, agent_metrics, metrics_raw,
                 authenticated_server_id, inbox, upd, del, api>>
  /\ dash_out' = DashQuiet
  /\ history_out' = NoHistory
  /\ UNCHANGED <<metrics_hourly, metrics_daily, config_file, agent, to_hub>>
  /\ to_agent' = Deliver(to_agent, ws_out')
  /\ UNCHANGED dash

\* ----------------------------------------------- agent session: "metrics"

\* db::store_metrics on success: the raw row is upserted by its primary key
\* (server_id, timestamp)
store_metrics(rows, server_id, metrics) ==
  Put(rows, <<server_id, metrics.timestamp>>, [cpu_usage |-> metrics.cpu_usage])

\* variant of StoreMetrics that gives the frame up when the store refuses it
StoreMetricsOrDrop(s, ok) ==
  /\ pc[s] = "m_db"
  /\ metrics_raw' = IF ok
                      THEN store_metrics(metrics_raw, authenticated_server_id[s], cur[s].metrics[1])
                      ELSE metrics_raw
  /\ pc' = [pc EXCEPT ![s] = IF ok THEN "m_cfg" ELSE "loop"]
  /\ cur' = [cur EXCEPT ![s] = IF ok THEN cur[s] ELSE NoFrame]
  /\ ws_out' = Quiet /\ metrics_tx' = NoBroadcast /\ http_out' = NoResponse /\ api_out' = NoApiOut
  /\ UNCHANGED <<now, config, agent_metrics, agent_connections,
                 authenticated_server_id, inbox, upd, del, api>>
  /\ dash_out' = DashQuiet
  /\ history_out' = NoHistory
  /\ UNCHANGED <<metrics_hourly, metrics_daily, config_file, agent, to_hub>>
  /\ to_agent' = Deliver(to_agent, ws_out')
  /\ UNCHANGED dash

\* db.lock(), store_metrics; an error is logged and otherwise ignored.
\* `ok` is whether the store accepts the row.
StoreMetrics(s, ok) ==
  /\ pc[s] = "m_db"
  /\ metrics_raw' = IF ok
                      THEN store_metrics(metrics_raw, authenticated_server_id[s], cur[s].metrics[1])
                      ELSE metrics_raw
  /\ pc' = [pc EXCEPT ![s] = "m_cfg"]
  /\ ws_out' = Quiet /\ metrics_tx' = NoBroadcast /\ http_out' = NoResponse /\ api_out' = NoApiOut
  /\ UNCHANGED <<now, config, agent_metrics, agent_connections,
                 authenticated_server_id, cur, inbox, upd, del, api>>
  /\ dash_out' = DashQuiet
  /\ history_out' = NoHistory
  /\ UNCHANGED <<metrics_hourly, metrics_daily, config_file, agent, to_hub>>
  /\ to_agent' = Deliver(to_agent, ws_out')
  /\ UNCHANGED dash

\* variant of AgentIp that always takes the peer address
AgentIpOfPeer(s, metrics) == client_ip[s]

\* metrics.ip_addresses.and_then(first).unwrap_or(client_ip)
AgentIp(s, metrics) ==
  IF metrics.ip_addresses # << >> THEN Head(metrics.ip_addresses) ELSE client_ip[s]

\* the server record after the version / ip update of an accepted sample
UpdatedRecord(server, metrics, agent_ip) ==
  [server EXCEPT !.version = IF metrics.version # NULL /\ server.version # metrics.version
                               THEN metrics.version ELSE server.version,
                 !.ip      = IF server.ip # agent_ip THEN agent_ip ELSE server.ip]

\* the `changed` flag of that update
Changed(server, metrics, agent_ip) ==
  \/ metrics.version # NULL /\ server.version # metrics.version
  \/ server.ip # agent_ip

\* config.write(), update the record of the bound server if it still exists,
\* save_config when something changed, drop the guard.  `w` is the outcome
\* of the file write.
UpdateConfig(s, w) ==
  /\ pc[s] = "m_cfg"
  /\ ConfigWritable
  /\ LET id == authenticated_server_id[s]
         m  == cur[s].metrics[1] IN
       /\ config' = IF id \in DOMAIN config
                      THEN [config EXCEPT ![id] = UpdatedRecord(config[id], m, AgentIp(s, m))]
                      ELSE config
       /\ config_file' = IF id \in DOMAIN config /\ Changed(config[id], m, AgentIp(s, m))
                           THEN save_config(config_file, config', w)
                           ELSE config_file
  /\ pc' = [pc EXCEPT ![s] = "m_reg"]
  /\ ws_out' = Quiet /\ metrics_tx' = NoBroadcast /\ http_out' = NoResponse /\ api_out' = NoApiOut
  /\ UNCHANGED <<now, agent_metrics, agent_connections, metrics_raw,
                 authenticated_server_id, cur, inbox, upd, del, api>>
  /\ dash_out' = DashQuiet
  /\ history_out' = NoHistory
  /\ UNCHANGED <<metrics_hourly, metrics_daily, agent, to_hub>>
  /\ to_agent' = Deliver(to_agent, ws_out')
  /\ UNCHANGED dash

\* agent_metrics.insert(server_id, AgentMetricsData { .., last_updated: Utc::now() })
UpsertMetrics(metrics, id, m, t) == Put(metrics, id, [metrics |-> m, last_updated |-> t])

\* variant of UpdateRegistry that returns to the loop without broadcasting
UpdateRegistryThenLoop(s) ==
  /\ pc[s] = "m_reg"
  /\ MetricsWritable
  /\ agent_metrics' = UpsertMetrics(agent_metrics, authenticated_server_id[s], cur[s].metrics[1], now)
  /\ pc' = [pc EXCEPT ![s] = "loop"]
  /\ cur' = [cur EXCEPT ![s] = NoFrame]
  /\ ws_out' = Quiet /\ metrics_tx' = NoBroadcast /\ http_out' = NoResponse /\ api_out' = NoApiOut
  /\ UNCHANGED <<now, config, agent_connections, metrics_raw,
                 authenticated_server_id, inbox, upd, del, api>>
  /\ dash_out' = DashQuiet
  /\ history_out' = NoHistory
  /\ UNCHANGED <<metrics_hourly, metrics_daily, config_file, agent, to_hub>>
  /\ to_agent' = Deliver(to_agent, ws_out')
  /\ UNCHANGED dash

\* agent_metrics.write(), insert; the write guard stays held
UpdateRegistry(s) ==
  /\ pc[s] = "m_reg"
  /\ MetricsWritable
  /\ agent_metrics' = UpsertMetrics(agent_metrics, authenticated_server_id[s], cur[s].metrics[1], now)
  /\ pc' = [pc EXCEPT ![s] = "m_bcast"]
  /\ ws_out' = Quiet /\ metrics_tx' = NoBroadcast /\ http_out' = NoResponse /\ api_out' = NoApiOut
  /\ UNCHANGED <<now, config, agent_connections, metrics_raw,
                 authenticated_server_id, cur, inbox, upd, del, api>>
  /\ dash_out' = DashQuiet
  /\ history_out' = NoHistory
  /\ UNCHANGED <<metrics_hourly, metrics_daily, config_file, agent, to_hub>>
  /\ to_agent' = Deliver(to_agent, ws_out')
  /\ UNCHANGED dash

\* config.read(), compose, metrics_tx.send, drop both guards
BroadcastSample(s) ==
  /\ pc[s] = "m_bcast"
  /\ ConfigReadable
  /\ metrics_tx' = Broadcast(s, "ingest", IngestUpdates(config, agent_metrics, now))
  /\ pc' = [pc EXCEPT ![s] = "loop"]
  /\ cur' = [cur EXCEPT ![s] = NoFrame]
  /\ ws_out' = Quiet /\ http_out' = NoResponse /\ api_out' = NoApiOut
  /\ UNCHANGED <<now, config, agent_metrics, agent_connections, metrics_raw,
                 authenticated_server_id, inbox, upd, del, api>>
  /\ dash' = BroadcastSend(dash, metrics_tx'.msg)
  /\ dash_out' = DashQuiet
  /\ history_out' = NoHistory
  /\ UNCHANGED <<metrics_hourly, metrics_daily, config_file, agent, to_hub>>
  /\ to_agent' = Deliver(to_agent, ws_out')

\* ------------------------------------------------- agent session: cleanup

\* connections.remove(&server_id): the entry goes whichever session's inbox
\* it holds (s, the session that runs the cleanup, is not looked at)
RemoveSink(connections, id, s) == Remove(connections, id)

\* agent_connections.write(), remove, drop the guard
CleanupRemove(s) ==
  /\ pc[s] = "c_conn"
  /\ ConnWritable
  /\ agent_connections' = RemoveSink(agent_connections, authenticated_server_id[s], s)
  /\ pc' = [pc EXCEPT ![s] = "c_cfg"]
  /\ ws_out' = Quiet /\ metrics_tx' = NoBroadcast /\ http_out' = NoResponse /\ api_out' = NoApiOut
  /\ UNCHANGED <<now, config, agent_metrics, metrics_raw,
                 authenticated_server_id, cur, inbox, upd, del, api>>
  /\ dash_out' = DashQuiet
  /\ history_out' = NoHistory
  /\ UNCHANGED <<metrics_hourly, metrics_daily, config_file, agent, to_hub>>
  /\ to_agent' = Deliver(to_agent, ws_out')
  /\ UNCHANGED dash

\* config.read(); the guard stays held
CleanupConfig(s) ==
  /\ pc[s] = "c_cfg"
  /\ ConfigReadable
  /\ pc' = [pc EXCEPT ![s] = "c_met"]
  /\ ws_out' = Quiet /\ metrics_tx' = NoBroadcast /\ http_out' = NoResponse /\ api_out' = NoApiOut
  /\ UNCHANGED <<now, config, agent_metrics, agent_connections, metrics_raw,
                 authenticated_server_id, cur, inbox, upd, del, api>>
  /\ dash_out' = DashQuiet
  /\ history_out' = NoHistory
  /\ UNCHANGED <<metrics_hourly, metrics_daily, config_file, agent, to_hub>>
  /\ to_agent' = Deliver(to_agent, ws_out')
  /\ UNCHANGED dash

\* agent_metrics.read(), compose, metrics_tx.send, return (cmd_rx is dropped)
CleanupBroadcast(s) ==
  /\ pc[s] = "c_met"
  /\ MetricsReadable
  /\ metrics_tx' = Broadcast(s, "disconnect",
                       DisconnectUpdates(config, agent_metrics, now, authenticated_server_id[s]))
  /\ pc' = [pc EXCEPT ![s] = "done"]
  /\ inbox' = [inbox EXCEPT ![s] = << >>]
  /\ ws_out' = Quiet /\ http_out' = NoResponse /\ api_out' = NoApiOut
  /\ UNCHANGED <<now, config, agent_metrics, agent_connections, metrics_raw,
                 authenticated_server_id, cur, upd, del, api>>
  /\ dash' = BroadcastSend(dash, metrics_tx'.msg)
  /\ dash_out' = DashQuiet
  /\ history_out' = NoHistory
  /\ UNCHANGED <<metrics_hourly, metrics_daily, config_file, agent, to_hub>>
  /\ to_agent' = Deliver(to_agent, ws_out')

\* ------------------------------------------------------------ update_agent

Idle == [pc |-> "idle", server_id |-> NULL, download_url |-> NULL, sender |-> NULL]

\* the receiving half of a session's inbox is gone once the session task
\* has returned
Closed(s) == pc[s] = "done"

\* POST /api/servers/:id/update arrives
UpdateBegin(id, url) ==
  /\ upd.pc = "idle"
  /\ upd' = [pc |-> "u_conn", server_id |-> id, download_url |-> url, sender |-> NULL]
  /\ ws_out' = Quiet /\ metrics_tx' = NoBroadcast /\ http_out' = NoResponse /\ api_out' = NoApiOut
  /\ UNCHANGED <<now, config, agent_metrics, agent_connections, metrics_raw, pc,
                 authenticated_server_id, cur, inbox, del, api>>
  /\ dash_out' = DashQuiet
  /\ history_out' = NoHistory
  /\ UNCHANGED <<metrics_hourly, metrics_daily, config_file, agent, to_hub>>
  /\ to_agent' = Deliver(to_agent, ws_out')
  /\ UNCHANGED dash

\* variant of UpdateLookup that answers an absent inbox like a failed send
UpdateLookupWrongAnswer ==
  /\ upd.pc = "u_conn"
  /\ ConnReadable
  /\ IF upd.server_id \in DOMAIN agent_connections
       THEN /\ upd' = [upd EXCEPT !.pc = "u_send", !.sender = agent_connections[upd.server_id]]
            /\ http_out' = NoResponse
       ELSE /\ upd' = Idle
            /\ http_out' = Response(FALSE, "Failed to send update command")
  /\ ws_out' = Quiet /\ metrics_tx' = NoBroadcast /\ api_out' = NoApiOut
  /\ UNCHANGED <<now, config, agent_metrics, agent_connections, metrics_raw, pc,
                 authenticated_server_id, cur, inbox, del, api>>
  /\ dash_out' = DashQuiet
  /\ history_out' = NoHistory
  /\ UNCHANGED <<metrics_hourly, metrics_daily, config_file, agent, to_hub>>
  /\ to_agent' = Deliver(to_agent, ws_out')
  /\ UNCHANGED dash

\* agent_connections.read(), connections.get(&server_id); the read guard
\* stays held until the handler returns
UpdateLookup ==
  /\ upd.pc = "u_conn"
  /\ ConnReadable
  /\ IF upd.server_id \in DOMAIN agent_connections
       THEN /\ upd' = [upd EXCEPT !.pc = "u_send", !.sender = agent_connections[upd.server_id]]
            /\ http_out' = NoResponse
       ELSE /\ upd' = Idle
            /\ http_out' = Response(FALSE, "Agent is not connected")
  /\ ws_out' = Quiet /\ metrics_tx' = NoBroadcast /\ api_out' = NoApiOut
  /\ UNCHANGED <<now, config, agent_metrics, agent_connections, metrics_raw, pc,
                 authenticated_server_id, cur, inbox, del, api>>
  /\ dash_out' = DashQuiet
  /\ history_out' = NoHistory
  /\ UNCHANGED <<metrics_hourly, metrics_daily, config_file, agent, to_hub>>
  /\ to_agent' = Deliver(to_agent, ws_out')
  /\ UNCHANGED dash

\* sender.send(Message::Text(json)).await, first poll: fails on a closed
\* channel, enqueues when there is room, otherwise the handler is suspended
UpdateSend ==
  /\ upd.pc = "u_send"
  /\ IF Closed(upd.sender)
       THEN /\ upd' = Idle
            /\ http_out' = Response(FALSE, "Failed to send update command")
            /\ inbox' = inbox
       ELSE IF Len(inbox[upd.sender]) < InboxCapacity
         THEN /\ inbox' = [inbox EXCEPT ![upd.sender] =
                             Append(@, CommandJson(AgentCommand(upd.download_url)))]
              /\ upd' = Idle
              /\ http_out' = Response(TRUE, "Update command sent to agent")
         ELSE /\ upd' = [upd EXCEPT !.pc = "u_wait"]
              /\ http_out' = NoResponse
              /\ inbox' = inbox
  /\ ws_out' = Quiet /\ metrics_tx' = NoBroadcast /\ api_out' = NoApiOut
  /\ UNCHANGED <<now, config, agent_metrics, agent_connections, metrics_raw, pc,
                 authenticated_server_id, cur, del, api>>
  /\ dash_out' = DashQuiet
  /\ history_out' = NoHistory
  /\ UNCHANGED <<metrics_hourly, metrics_daily, config_file, agent, to_hub>>
  /\ to_agent' = Deliver(to_agent, ws_out')
  /\ UNCHANGED dash

\* the suspended send is woken: by room in the inbox or by the channel closing
UpdateWake ==
  /\ upd.pc = "u_wait"
  /\ Closed(upd.sender) \/ Len(inbox[upd.sender]) < InboxCapacity
  /\ IF Closed(upd.sender)
       THEN /\ http_out' = Response(FALSE, "Failed to send update command")
            /\ inbox' = inbox
       ELSE /\ inbox' = [inbox EXCEPT ![upd.sender] =
                           Append(@, CommandJson(AgentCommand(upd.download_url)))]
            /\ http_out' = Response(TRUE, "Update command sent to agent")
  /\ upd' = Idle
  /\ ws_out' = Quiet /\ metrics_tx' = NoBroadcast /\ api_out' = NoApiOut
  /\ UNCHANGED <<now, config, agent_metrics, agent_connections, metrics_raw, pc,
                 authenticated_server_id, cur, del, api>>
  /\ dash_out' = DashQuiet
  /\ history_out' = NoHistory
  /\ UNCHANGED <<metrics_hourly, metrics_daily, config_file, agent, to_hub>>
  /\ to_agent' = Deliver(to_agent, ws_out')
  /\ UNCHANGED dash

\* ----------------------------------------------------------- delete_server

DeleteBegin(id) ==
  /\ del.pc = "idle"
  /\ del' = [pc |-> "del_cfg", id |-> id]
  /\ ws_out' = Quiet /\ metrics_tx' = NoBroadcast /\ http_out' = NoResponse /\ api_out' = NoApiOut
  /\ UNCHANGED <<now, config, agent_metrics, agent_connections, metrics_raw, pc,
                 authenticated_server_id, cur, inbox, upd, api>>
  /\ dash_out' = DashQuiet
  /\ history_out' = NoHistory
  /\ UNCHANGED <<metrics_hourly, metrics_daily, config_file, agent, to_hub>>
  /\ to_agent' = Deliver(to_agent, ws_out')
  /\ UNCHANGED dash

\* config.write(), servers.retain(|s| s.id != id), save_config; the write
\* guard stays held.  `w` is the outcome of the file write.
DeleteConfig(w) ==
  /\ del.pc = "del_cfg"
  /\ ConfigWritable
  /\ config' = Remove(config, del.id)
  /\ config_file' = save_config(config_file, config', w)
  /\ del' = [del EXCEPT !.pc = "del_met"]
  /\ ws_out' = Quiet /\ metrics_tx' = NoBroadcast /\ http_out' = NoResponse /\ api_out' = NoApiOut
  /\ UNCHANGED <<now, agent_metrics, agent_connections, metrics_raw, pc,
                 authenticated_server_id, cur, inbox, upd, api>>
  /\ dash_out' = DashQuiet
  /\ history_out' = NoHistory
  /\ UNCHANGED <<metrics_hourly, metrics_daily, agent, to_hub>>
  /\ to_agent' = Deliver(to_agent, ws_out')
  /\ UNCHANGED dash

\* agent_metrics.write(), metrics.remove(&id), return
DeleteMetrics ==
  /\ del.pc = "del_met"
  /\ MetricsWritable
  /\ agent_metrics' = Remove(agent_metrics, del.id)
  /\ del' = [pc |-> "idle", id |-> NULL]
  /\ ws_out' = Quiet /\ metrics_tx' = NoBroadcast /\ http_out' = NoResponse /\ api_out' = NoApiOut
  /\ UNCHANGED <<now, config, agent_connections, metrics_raw, pc,
                 authenticated_server_id, cur, inbox, upd, api>>
  /\ dash_out' = DashQuiet
  /\ history_out' = NoHistory
  /\ UNCHANGED <<metrics_hourly, metrics_daily, config_file, agent, to_hub>>
  /\ to_agent' = Deliver(to_agent, ws_out')
  /\ UNCHANGED dash

\* ------------------------- dashboard attach snapshot and /api/metrics/all

\* a dashboard socket is upgraded ("attach") or GET /api/metrics/all arrives ("all")
SnapshotBegin(kind) ==
  /\ api.pc = "idle"
  /\ api' = [pc |-> "cfg", kind |-> kind]
  /\ ws_out' = Quiet /\ metrics_tx' = NoBroadcast /\ http_out' = NoResponse /\ api_out' = NoApiOut
  /\ UNCHANGED <<now, config, agent_metrics, agent_connections, metrics_raw, pc,
                 authenticated_server_id, cur, inbox, upd, del>>
  /\ dash_out' = DashQuiet
  /\ history_out' = NoHistory
  /\ UNCHANGED <<metrics_hourly, metrics_daily, config_file, agent, to_hub>>
  /\ to_agent' = Deliver(to_agent, ws_out')
  /\ UNCHANGED dash

\* config.read(); the guard stays held
SnapshotConfig ==
  /\ api.pc = "cfg"
  /\ ConfigReadable
  /\ api' = [api EXCEPT !.pc = "met"]
  /\ ws_out' = Quiet /\ metrics_tx' = NoBroadcast /\ http_out' = NoResponse /\ api_out' = NoApiOut
  /\ UNCHANGED <<now, config, agent_metrics, agent_connections, metrics_raw, pc,
                 authenticated_server_id, cur, inbox, upd, del>>
  /\ dash_out' = DashQuiet
  /\ history_out' = NoHistory
  /\ UNCHANGED <<metrics_hourly, metrics_daily, config_file, agent, to_hub>>
  /\ to_agent' = Deliver(to_agent, ws_out')
  /\ UNCHANGED dash

\* agent_metrics.read(), compose, send to the caller, drop both guards
SnapshotCompose ==
  /\ api.pc = "met"
  /\ MetricsReadable
  /\ api_out' = IF api.kind = "attach"
                  THEN [sent |-> TRUE, kind |-> "attach",
                        servers |-> AttachUpdates(config, agent_metrics, now),
                        site_settings |-> TRUE]
                  ELSE [sent |-> TRUE, kind |-> "all",
                        servers |-> AllMetricsUpdates(config, agent_metrics, now),
                        site_settings |-> FALSE]
  /\ api' = [pc |-> "idle", kind |-> ""]
  /\ ws_out' = Quiet /\ metrics_tx' = NoBroadcast /\ http_out' = NoResponse
  /\ UNCHANGED <<now, config, agent_metrics, agent_connections, metrics_raw, pc,
                 authenticated_server_id, cur, inbox, upd, del>>
  /\ dash_out' = DashQuiet
  /\ history_out' = NoHistory
  /\ UNCHANGED <<metrics_hourly, metrics_daily, config_file, agent, to_hub>>
  /\ to_agent' = Deliver(to_agent, ws_out')
  /\ UNCHANGED dash

\* -------------------------------------------------- dashboard connections

\* of every dashboard step: the agent side and the requests are left alone
DashboardStepOnly ==
  /\ ws_out' = Quiet /\ metrics_tx' = NoBroadcast /\ http_out' = NoResponse /\ api_out' = NoApiOut
  /\ UNCHANGED <<now, config, agent_metrics, agent_connections, metrics_raw, pc,
                 authenticated_server_id, cur, inbox, upd, del, api>>
  /\ history_out' = NoHistory
  /\ UNCHANGED <<metrics_hourly, metrics_daily, config_file, agent, to_hub>>
  /\ to_agent' = Deliver(to_agent, ws_out')

\* the socket is upgraded; state.metrics_tx.subscribe()
DashAttach(d) ==
  /\ dash[d].pc = "off"
  /\ dash' = [dash EXCEPT ![d] = [pc |-> "cfg", rx |-> NoReceiver]]
  /\ dash_out' = DashQuiet
  /\ DashboardStepOnly

\* config.read(); the guard stays held
DashConfig(d) ==
  /\ dash[d].pc = "cfg"
  /\ ConfigReadable
  /\ dash' = [dash EXCEPT ![d].pc = "met"]
  /\ dash_out' = DashQuiet
  /\ DashboardStepOnly

\* variant of DashSnapshot whose first frame carries no site settings
DashSnapshotBare(d) ==
  /\ dash[d].pc = "met"
  /\ MetricsReadable
  /\ dash_out' = DashWrote(d, DashboardMessage(AttachUpdates(config, agent_metrics, now), FALSE))
  /\ dash' = [dash EXCEPT ![d].pc = "fwd"]
  /\ DashboardStepOnly

\* agent_metrics.read(), compose the initial state with the site settings,
\* write it to the socket, drop both guards, spawn the forwarding task
DashSnapshot(d) ==
  /\ dash[d].pc = "met"
  /\ MetricsReadable
  /\ dash_out' = DashWrote(d, DashboardMessage(AttachUpdates(config, agent_metrics, now), TRUE))
  /\ dash' = [dash EXCEPT ![d].pc = "fwd"]
  /\ DashboardStepOnly

\* One turn of the forwarding task: `while let Ok(msg) = rx.recv().await`
\* ends on Err(Lagged); otherwise the oldest unread value is written to the
\* socket, and a failed write (`ok` false: the dashboard is gone) ends the
\* task too.  The receiver is dropped with the task.
DashForward(d, ok) ==
  /\ dash[d].pc = "fwd"
  /\ dash[d].rx.lagged \/ dash[d].rx.unread # << >>
  /\ IF ~dash[d].rx.lagged /\ ok
       THEN /\ dash_out' = DashWrote(d, Head(dash[d].rx.unread))
            /\ dash' = [dash EXCEPT ![d].rx.unread = Tail(@)]
       ELSE /\ dash_out' = DashQuiet
            /\ dash' = [dash EXCEPT ![d] = [pc |-> "end", rx |-> NoReceiver]]
  /\ DashboardStepOnly

\* ---------------------------------------------------------- background job

\* One turn of the background task: sleep one second, collect the metrics
\* of the hub's own host, tx.send(json).
BackgroundTick ==
  /\ metrics_tx' = [sent |-> TRUE, by |-> "background", trigger |-> "tick",
                    msg |-> LocalMetrics(now)]
  /\ dash' = BroadcastSend(dash, metrics_tx'.msg)
  /\ dash_out' = DashQuiet
  /\ history_out' = NoHistory
  /\ ws_out' = Quiet /\ http_out' = NoResponse /\ api_out' = NoApiOut
  /\ UNCHANGED <<metrics_hourly, metrics_daily, config_file, agent, to_hub>>
  /\ to_agent' = Deliver(to_agent, ws_out')
  /\ UNCHANGED <<now, config, agent_metrics, agent_connections, metrics_raw, pc,
                 authenticated_server_id, cur, inbox, upd, del, api>>

\* ---------------------------------------------------------------- the store
\* Timestamps are whole seconds of Unix time.  The store keeps them as
\* ISO-8601 text and the queries compare that text; text of one format
\* orders as the instants do, so the model compares the seconds.  An
\* hour_start is the first second of its hour, a date is the number of its
\* day.

\* Utc::now(), to the second
UtcSeconds(t) == StartedAt + t \div 1000

\* Duration::hours(n), Duration::days(n), in seconds
Hours(n) == n * 3600
Days(n)  == n * 86400

HourStart(t) == t - (t % Hours(1))

\* .format("%Y-%m-%d")
DateOf(t) == t \div Days(1)

HistoryPoint(t, cpu) == [timestamp |-> t, cpu |-> cpu]

HistoryResponse(id, range, data) ==
  [sent |-> TRUE, server_id |-> id, range |-> range, data |-> data]

\* The instants of S that lie in lo..hi, in ascending order: the lower half
\* of the interval before the upper half.
RECURSIVE AscendingIn(_, _, _)
AscendingIn(S, lo, hi) ==
  IF S = {} THEN << >>
  ELSE IF lo = hi THEN <<lo>>
  ELSE LET mid == lo + (hi - lo) \div 2 IN
         AscendingIn({t \in S : t <= mid}, lo, mid) \o
         AscendingIn({t \in S : t > mid}, mid + 1, hi)

\* ORDER BY timestamp ASC (Unix time of the model lies below 2^30)
Ascending(S) == AscendingIn(S, 0, 1073741823)

\* SELECT .. FROM metrics_raw WHERE server_id = ?1 AND timestamp >= ?2
\* [AND (strftime('%s', timestamp) % 300) < 60] ORDER BY timestamp ASC
SelectRaw(raw, id, cutoff, decimated) ==
  LET rows == {k \in DOMAIN raw :
                 /\ k[1] = id
                 /\ k[2] >= cutoff
                 /\ decimated => (k[2] % DECIMATION_PERIOD_SECS) < DECIMATION_SLOT_SECS}
      hit  == Ascending({k[2] : k \in rows})
  IN [i \in DOMAIN hit |-> HistoryPoint(hit[i], raw[<<id, hit[i]>>].cpu_usage)]

\* SELECT .. FROM metrics_hourly WHERE server_id = ?1 AND hour_start >= ?2
\* ORDER BY hour_start ASC
SelectHourly(hourly, id, cutoff) ==
  LET hit == SortSeq(SelectSeq(hourly, LAMBDA r : r.server_id = id /\ r.hour_start >= cutoff),
                     LAMBDA a, b : a.hour_start < b.hour_start)
  IN [i \in DOMAIN hit |-> HistoryPoint(hit[i].hour_start, hit[i].cpu_avg)]

\* SELECT .. FROM metrics_daily WHERE server_id = ?1 AND date >= ?2
\* ORDER BY date ASC
SelectDaily(daily, id, cutoff) ==
  LET hit == SortSeq(SelectSeq(daily, LAMBDA r : r.server_id = id /\ r.date >= cutoff),
                     LAMBDA a, b : a.date < b.date)
  IN [i \in DOMAIN hit |-> HistoryPoint(hit[i].date, hit[i].cpu_avg)]

\* variant of HistoryData whose 30d arm is missing, so that 30d falls
\* through to the last arm
HistoryDataNoMonth(raw, hourly, daily, id, range, t) ==
  CASE range = "1h"  -> SelectRaw(raw, id, t - Hours(1), FALSE)
    [] range = "24h" -> SelectRaw(raw, id, t - Hours(24), TRUE)
    [] range = "7d"  -> SelectHourly(hourly, id, t - Days(7))
    [] OTHER         -> SelectDaily(daily, id, DateOf(t - Days(365)))

\* the `data` of get_history: match query.range.as_str()
HistoryData(raw, hourly, daily, id, range, t) ==
  CASE range = "1h"  -> SelectRaw(raw, id, t - Hours(1), FALSE)
    [] range = "24h" -> SelectRaw(raw, id, t - Hours(24), TRUE)
    [] range = "7d"  -> SelectHourly(hourly, id, t - Days(7))
    [] range = "30d" -> SelectDaily(daily, id, DateOf(t - Days(30)))
    [] OTHER         -> SelectDaily(daily, id, DateOf(t - Days(365)))

\* of every step of the store: sessions, requests, dashboards, the config
\* file and the agent are left alone
StoreStepOnly ==
  /\ ws_out' = Quiet /\ metrics_tx' = NoBroadcast /\ http_out' = NoResponse /\ api_out' = NoApiOut
  /\ dash_out' = DashQuiet
  /\ UNCHANGED <<now, config, agent_metrics, agent_connections, pc,
                 authenticated_server_id, cur, inbox, upd, del, api, dash,
                 config_file, agent, to_hub>>
  /\ to_agent' = Deliver(to_agent, ws_out')

\* GET /api/history/:server_id?range=..: db.lock(), the query, the response
GetHistory(id, range) ==
  /\ history_out' = HistoryResponse(id, range,
                       HistoryData(metrics_raw, metrics_hourly, metrics_daily,
                                   id, range, UtcSeconds(now)))
  /\ UNCHANGED <<metrics_raw, metrics_hourly, metrics_daily>>
  /\ StoreStepOnly

\* the sum of the cpu column over id's raw rows with a timestamp in S, all
\* of which lie in lo..hi
RECURSIVE SumCpu(_, _, _, _, _)
SumCpu(raw, id, S, lo, hi) ==
  IF S = {} THEN 0
  ELSE IF lo = hi THEN raw[<<id, lo>>].cpu_usage
  ELSE LET mid == lo + (hi - lo) \div 2 IN
         SumCpu(raw, id, {t \in S : t <= mid}, lo, mid) +
         SumCpu(raw, id, {t \in S : t > mid}, mid + 1, hi)

\* the hourly row of id for the hour that starts at h; an average is kept
\* as the sum and the number of rows it was taken over
HourlyRow(raw, id, h) ==
  LET ts == {k[2] : k \in {k \in DOMAIN raw : k[1] = id /\ k[2] >= h /\ k[2] < h + Hours(1)}}
  IN [server_id |-> id, hour_start |-> h,
      cpu_avg |-> [sum |-> SumCpu(raw, id, ts, h, h + Hours(1) - 1), n |-> Cardinality(ts)]]

\* variant of UpsertHourly that inserts without looking for the key
InsertHourly(hourly, row) == Append(hourly, row)

\* INSERT .. ON CONFLICT(server_id, hour_start) DO UPDATE
UpsertHourly(hourly, row) ==
  IF \E i \in DOMAIN hourly :
       hourly[i].server_id = row.server_id /\ hourly[i].hour_start = row.hour_start
    THEN [i \in DOMAIN hourly |->
            IF hourly[i].server_id = row.server_id /\ hourly[i].hour_start = row.hour_start
              THEN row ELSE hourly[i]]
    ELSE Append(hourly, row)

\* the order in which aggregate_hourly visits the servers
ServerOrder == <<"srv-1", "srv-2">>

\* aggregate_hourly over the hour that starts at h: for each server with
\* raw rows in that hour, in turn, the averages are computed and upserted
RECURSIVE aggregate_hourly(_, _, _, _)
aggregate_hourly(hourly, raw, h, ids) ==
  IF ids = << >> THEN hourly
  ELSE LET row  == HourlyRow(raw, Head(ids), h)
           next == IF row.cpu_avg.n > 0 THEN UpsertHourly(hourly, row) ELSE hourly
       IN aggregate_hourly(next, raw, h, Tail(ids))

\* The aggregation job at an hour boundary: the hour just completed.
AggregateHourly ==
  /\ history_out' = NoHistory
  /\ UNCHANGED <<metrics_raw, metrics_daily>>
  /\ StoreStepOnly
  /\ metrics_hourly' = aggregate_hourly(metrics_hourly, metrics_raw,
                                        HourStart(UtcSeconds(now)) - Hours(1), ServerOrder)

\* ---------------------------------------------------------------- the agent
\* agent/src/websocket.rs.  The agent is built for Linux: the cfg(unix) and
\* cfg(target_os = "linux") blocks are part of handle_update_command.  Every
\* call into the file system, the network or the process table is one step,
\* and its outcome is an input of the step.  agent.log lists the calls of
\* the update in progress (or of the last one) with their results.

\* of every agent step: the hub is left alone
AgentStepOnly ==
  /\ ws_out' = Quiet /\ metrics_tx' = NoBroadcast /\ http_out' = NoResponse /\ api_out' = NoApiOut
  /\ dash_out' = DashQuiet /\ history_out' = NoHistory
  /\ UNCHANGED <<now, config, agent_metrics, agent_connections, metrics_raw, pc,
                 authenticated_server_id, cur, inbox, upd, del, api, dash,
                 metrics_hourly, metrics_daily, config_file>>

Call(name, ok) == [call |-> name, ok |-> ok]

\* format!("{}/releases/vstats-agent", dashboard_url)
DefaultUrl == "https://hub.example.test/releases/vstats-agent"

\* the `url` local
UpdateUrl(download_url) == IF download_url # NULL THEN download_url ELSE DefaultUrl

\* ------ the socket, seen from the agent

\* a message as `read.next()` yields it, or the timeout of the wait for it
\*   ws : "text", "close", "pong", "binary", "error" (Some(Err)), "eof" (None), "timeout"
Msg(ws, json) == [ws |-> ws, json |-> json]

\* serde_json::from_str::<ServerResponse>: `type` is required, the other
\* fields are options
NoServerResponse == << >>
ParseServerResponse(json) ==
  IF "type" \in DOMAIN json
    THEN <<[msg_type     |-> json.type,
            status       |-> IF "status" \in DOMAIN json THEN json.status ELSE NULL,
            message      |-> IF "message" \in DOMAIN json THEN json.message ELSE NULL,
            command      |-> IF "command" \in DOMAIN json THEN json.command ELSE NULL,
            download_url |-> IF "download_url" \in DOMAIN json THEN json.download_url ELSE NULL]>>
    ELSE NoServerResponse

\* text that is not a ServerResponse
Garbage == [garbage |-> TRUE]

\* what a hub outside the model may send
PeerMessages ==
  { Msg("text", j) : j \in {AuthOk, AuthError("Invalid token"), AuthError("Server not found"),
                            NotAuthenticated, Garbage} } \cup
  { Msg(w, NoOut) : w \in {"close", "pong", "binary", "error", "eof"} }

\* What read.next() can yield now: from a session of the hub the oldest
\* frame in flight, at any time an error of the transport (Some(Err)) and,
\* once the session task has returned and its socket is dropped, the end
\* of the stream; from a hub outside the model anything.
Incoming ==
  IF agent.conn \in Sessions
    THEN { Msg("error", NoOut) } \cup
         (IF to_agent[agent.conn] # << >>
            THEN { Msg("text", Head(to_agent[agent.conn])) }
            ELSE IF pc[agent.conn] = "done" THEN { Msg("eof", NoOut) } ELSE {})
    ELSE PeerMessages

\* the frames in flight to the agent after it has read m
AfterRead(down, m) ==
  IF agent.conn \in Sessions /\ m.ws = "text"
    THEN [down EXCEPT ![agent.conn] = Tail(@)]
    ELSE down

\* the socket has room for one more frame of the agent
Room == agent.conn \in Sessions => Len(to_hub[agent.conn]) < SocketCapacity

\* the frames in flight to the hub after the agent has written f
Written(up, f) ==
  IF agent.conn \in Sessions THEN [up EXCEPT ![agent.conn] = Append(@, f)] ELSE up

\* ... after the agent has dropped its stream: the session reads the end
Dropped(up) == Written(up, Frame("eof", FALSE, "", NULL, NULL, None))

\* serde_json::to_string(&AuthMessage), as the hub parses it
AuthMessage(cred) == Frame("text", TRUE, "auth", cred.server_id, cred.token, None)

\* self.collector.collect()
Collected == SampleA

\* serde_json::to_string(&MetricsMessage), as the hub parses it; a ping
MetricsMessage(m) == Frame("text", TRUE, "metrics", NULL, NULL, Some(m))
PingMessage == Frame("binary", FALSE, "", NULL, NULL, None)

\* ------ run and connect_and_run

\* variant of Returned that starts every sleep from the initial delay
ReturnedResetting(a, res) ==
  [a EXCEPT !.pc = "sleep", !.result = res, !.conn = "none", !.out = "none",
            !.reconnect_delay = INITIAL_RECONNECT_DELAY]

\* connect_and_run returns res ("ok" or "err"): the stream is dropped, the
\* match of `run` resets the delay on Ok, and the sleep begins
Returned(a, res) ==
  [a EXCEPT !.pc = "sleep", !.result = res, !.conn = "none", !.out = "none",
            !.reconnect_delay = IF res = "ok" THEN INITIAL_RECONNECT_DELAY ELSE @]

\* connect_async(&ws_url): r is "refused" (Err), "peer" (accepted by a hub
\* outside the model) or the session of the hub that accepted it
AgentConnect(r) ==
  /\ agent.pc = "connect"
  /\ r \in Sessions =>
       /\ r \notin agent.used
       /\ pc[r] = "loop" /\ authenticated_server_id[r] = NULL /\ to_hub[r] = << >>
  /\ agent' = IF r = "refused"
                THEN [Returned(agent, "err") EXCEPT !.got = "none"]
                ELSE [agent EXCEPT !.pc = "auth_send", !.conn = r, !.out = "none", !.got = "none",
                                   !.used = IF r \in Sessions THEN @ \cup {r} ELSE @]
  /\ UNCHANGED <<to_hub, to_agent>>
  /\ AgentStepOnly

\* write.send(Message::Text(auth_json)); an Err is returned with `?`
AgentSendAuth(ok) ==
  /\ agent.pc = "auth_send"
  /\ IF ok
       THEN /\ agent' = [agent EXCEPT !.pc = "auth_wait", !.out = "auth", !.got = "none"]
            /\ to_hub' = Written(to_hub, AuthMessage(agent.cred))
       ELSE /\ agent' = [Returned(agent, "err") EXCEPT !.got = "none"]
            /\ to_hub' = Dropped(to_hub)
  /\ UNCHANGED to_agent
  /\ AgentStepOnly

\* the auth response is acceptable: text that parses with status "ok"
Accepted(m) ==
  /\ m.ws = "text"
  /\ ParseServerResponse(m.json) # NoServerResponse
  /\ ParseServerResponse(m.json)[1].status = "ok"

\* variant of AgentAuthResponse that enters the metrics loop on any text
AgentAuthResponseAnyText(m) ==
  /\ agent.pc = "auth_wait"
  /\ m.ws = "timeout" \/ m \in Incoming
  /\ IF m.ws = "text"
       THEN /\ agent' = [agent EXCEPT !.pc = "run", !.out = "none", !.got = m.ws]
            /\ to_hub' = to_hub
            /\ to_agent' = AfterRead(to_agent, m)
       ELSE /\ agent' = [Returned(agent, "err") EXCEPT !.got = m.ws]
            /\ to_hub' = Dropped(to_hub)
            /\ to_agent' = to_agent
  /\ AgentStepOnly

\* timeout(AUTH_TIMEOUT, read.next()): the timeout, the end of the stream,
\* an error, a message that is not text, text that does not parse and a
\* status other than "ok" return Err; otherwise the metrics loop is entered
AgentAuthResponse(m) ==
  /\ agent.pc = "auth_wait"
  /\ m.ws = "timeout" \/ m \in Incoming
  /\ IF Accepted(m)
       THEN /\ agent' = [agent EXCEPT !.pc = "run", !.out = "none", !.got = m.ws]
            /\ to_hub' = to_hub
            /\ to_agent' = AfterRead(to_agent, m)
       ELSE /\ agent' = [Returned(agent, "err") EXCEPT !.got = m.ws]
            /\ to_hub' = Dropped(to_hub)
            /\ to_agent' = to_agent
  /\ AgentStepOnly

\* metrics_interval.tick() / ping_interval.tick(): a frame is written to the hub
AgentSend(kind) ==
  /\ agent.pc = "run"
  /\ Room
  /\ agent' = [agent EXCEPT !.out = kind, !.got = "none"]
  /\ to_hub' = Written(to_hub, IF kind = "metrics" THEN MetricsMessage(Collected) ELSE PingMessage)
  /\ UNCHANGED to_agent
  /\ AgentStepOnly

\* the write of a metrics frame or of a ping fails: return Err
AgentSendFails(kind) ==
  /\ agent.pc = "run"
  /\ agent' = [Returned(agent, "err") EXCEPT !.got = "none"]
  /\ to_hub' = Dropped(to_hub)
  /\ UNCHANGED to_agent
  /\ AgentStepOnly

\* the message is {type:"command", command:"update"}
IsUpdateCommand(m) ==
  /\ m.ws = "text"
  /\ ParseServerResponse(m.json) # NoServerResponse
  /\ ParseServerResponse(m.json)[1].msg_type = "command"
  /\ ParseServerResponse(m.json)[1].command = "update"

\* msg = read.next() in the metrics loop, for every message but an update
\* command: Close returns Ok, an error and the end of the stream return
\* Err, everything else (a pong, an error frame, text that does not parse)
\* is logged or passed over
AgentRecv(m) ==
  /\ agent.pc = "run"
  /\ m \in Incoming
  /\ ~IsUpdateCommand(m)
  /\ IF m.ws \in {"close", "error", "eof"}
       THEN /\ agent' = [Returned(agent, IF m.ws = "close" THEN "ok" ELSE "err") EXCEPT !.got = m.ws]
            /\ to_hub' = Dropped(to_hub)
            /\ to_agent' = to_agent
       ELSE /\ agent' = [agent EXCEPT !.out = "none", !.got = m.ws]
            /\ to_hub' = to_hub
            /\ to_agent' = AfterRead(to_agent, m)
  /\ AgentStepOnly

\* tokio::time::sleep(reconnect_delay) is over;
\* reconnect_delay = min(reconnect_delay * 2, MAX_RECONNECT_DELAY)
AgentSleepDone ==
  /\ agent.pc = "sleep"
  /\ agent' = [agent EXCEPT !.pc = "connect", !.got = "none", !.out = "none",
                            !.reconnect_delay =
                               IF agent.reconnect_delay * 2 < MAX_RECONNECT_DELAY
                                 THEN agent.reconnect_delay * 2 ELSE MAX_RECONNECT_DELAY]
  /\ UNCHANGED <<to_hub, to_agent>>
  /\ AgentStepOnly

\* A text frame {type:"command", command:"update"} is read and
\* handle_update_command entered: std::env::current_exe(), the url.
AgentRecvUpdate(download_url, ok) ==
  /\ agent.pc = "run"
  /\ agent.conn \in Sessions =>
       \E m \in Incoming :
         /\ IsUpdateCommand(m)
         /\ ParseServerResponse(m.json)[1].download_url = download_url
  /\ agent' = IF ok
                THEN [agent EXCEPT !.pc = "download", !.url = UpdateUrl(download_url),
                                   !.log = << >>, !.out = "none", !.got = "text"]
                ELSE [agent EXCEPT !.log = <<Call("current_exe", FALSE)>>, !.out = "none",
                                   !.got = "text"]
  /\ to_agent' = AfterRead(to_agent, Msg("text", NoOut))
  /\ UNCHANGED to_hub
  /\ AgentStepOnly

\* download_file(&url, &temp_path): reqwest::get, the status, the body,
\* fs::write.  r is "ok", "http" (request, status or body failed: nothing
\* is written) or "write" (fs::write failed with a part of the body written).
AgentDownload(r) ==
  /\ agent.pc = "download"
  /\ agent' = CASE r = "ok" ->
                     [agent EXCEPT !.pc = "chmod", !.new = File("new", FALSE),
                                   !.log = Append(@, Call("download", TRUE)), !.out = "none"]
                 [] r = "http" ->
                     [agent EXCEPT !.pc = "run",
                                   !.log = Append(@, Call("download", FALSE)), !.out = "none"]
                 [] r = "write" ->
                     [agent EXCEPT !.pc = "run", !.new = File("partial", FALSE),
                                   !.log = Append(@, Call("download", FALSE)), !.out = "none"]
  /\ UNCHANGED <<to_hub, to_agent>>
  /\ AgentStepOnly

\* fs::metadata(&temp_path), set_mode(0o755), fs::set_permissions.  r is
\* "ok", "no_metadata" (metadata failed: the block is skipped) or "failed"
\* (set_permissions failed: return).
AgentSetPermissions(r) ==
  /\ agent.pc = "chmod"
  /\ agent' = CASE r = "ok" ->
                     [agent EXCEPT !.pc = "backup", !.new.exec = TRUE,
                                   !.log = Append(@, Call("chmod", TRUE)), !.out = "none"]
                 [] r = "no_metadata" ->
                     [agent EXCEPT !.pc = "backup",
                                   !.log = Append(@, Call("metadata", FALSE)), !.out = "none"]
                 [] r = "failed" ->
                     [agent EXCEPT !.pc = "run",
                                   !.log = Append(@, Call("chmod", FALSE)), !.out = "none"]
  /\ UNCHANGED <<to_hub, to_agent>>
  /\ AgentStepOnly

\* fs::rename(&current_exe, &backup_path); on Err, remove_file(&temp_path)
\* (`cleaned`: whether that removal succeeds) and return.  A rename whose
\* source is absent fails.
AgentBackup(ok, cleaned) ==
  /\ agent.pc = "backup"
  /\ agent' = IF ok /\ agent.exe # Absent
                THEN [agent EXCEPT !.pc = "install", !.backup = agent.exe, !.exe = Absent,
                                   !.log = Append(@, Call("backup", TRUE)), !.out = "none"]
                ELSE [agent EXCEPT !.pc = "run", !.new = IF cleaned THEN Absent ELSE @,
                                   !.log = Append(@, Call("backup", FALSE)), !.out = "none"]
  /\ UNCHANGED <<to_hub, to_agent>>
  /\ AgentStepOnly

\* fs::rename(&temp_path, &current_exe); on Err, `let _ =
\* fs::rename(&backup_path, &current_exe)` (`restored`: whether that rename
\* succeeds) and return.
AgentInstall(ok, restored) ==
  /\ agent.pc = "install"
  /\ agent' = IF ok /\ agent.new # Absent
                THEN [agent EXCEPT !.pc = "rm_backup", !.exe = agent.new, !.new = Absent,
                                   !.log = Append(@, Call("install", TRUE)), !.out = "none"]
                ELSE IF restored /\ agent.backup # Absent
                  THEN [agent EXCEPT !.pc = "run", !.exe = agent.backup, !.backup = Absent,
                                     !.log = Append(@, Call("install", FALSE)), !.out = "none"]
                  ELSE [agent EXCEPT !.pc = "run",
                                     !.log = Append(@, Call("install", FALSE)), !.out = "none"]
  /\ UNCHANGED <<to_hub, to_agent>>
  /\ AgentStepOnly

\* variant of AgentRemoveBackup that leaves the backup where it is
AgentRemoveBackupKept(ok) ==
  /\ agent.pc = "rm_backup"
  /\ agent' = [agent EXCEPT !.pc = "restart",
                            !.log = Append(@, Call("rm_backup", ok)), !.out = "none"]
  /\ UNCHANGED <<to_hub, to_agent>>
  /\ AgentStepOnly

\* let _ = fs::remove_file(&backup_path)
AgentRemoveBackup(ok) ==
  /\ agent.pc = "rm_backup"
  /\ agent' = [agent EXCEPT !.pc = "restart", !.backup = IF ok THEN Absent ELSE @,
                            !.log = Append(@, Call("rm_backup", ok)), !.out = "none"]
  /\ UNCHANGED <<to_hub, to_agent>>
  /\ AgentStepOnly

\* let _ = Command::new("systemctl").args(["restart", "vstats-agent"]).spawn()
AgentRestart(ok) ==
  /\ agent.pc = "restart"
  /\ agent' = [agent EXCEPT !.pc = "exit",
                            !.log = Append(@, Call("restart", ok)), !.out = "none"]
  /\ UNCHANGED <<to_hub, to_agent>>
  /\ AgentStepOnly

\* std::process::exit(0)
AgentExit ==
  /\ agent.pc = "exit"
  /\ agent' = [agent EXCEPT !.pc = "exited", !.conn = "none",
                            !.log = Append(@, Call("exit", TRUE)), !.out = "none"]
  /\ to_hub' = Dropped(to_hub)
  /\ UNCHANGED to_agent
  /\ AgentStepOnly

\* -------------------------------------------------------------------- clock

\* amounts by which the wall clock is seen to advance between two steps
TickSteps == {29999, 30000}

\* the steps a task takes on its own once the lock it needs is free
Working ==
  \/ \E s \in Sessions : AuthCheck(s)
  \/ \E s \in Sessions : AuthRegister(s)
  \/ \E s \in Sessions, ok \in BOOLEAN : StoreMetrics(s, ok)
  \/ \E s \in Sessions, w \in WriteOutcomes : UpdateConfig(s, w)
  \/ \E s \in Sessions : UpdateRegistry(s)
  \/ \E s \in Sessions : BroadcastSample(s)
  \/ \E s \in Sessions : CleanupRemove(s)
  \/ \E s \in Sessions : CleanupConfig(s)
  \/ \E s \in Sessions : CleanupBroadcast(s)
  \/ UpdateLookup
  \/ \E w \in WriteOutcomes : DeleteConfig(w)
  \/ DeleteMetrics
  \/ SnapshotConfig
  \/ SnapshotCompose

\* The hub's own steps take far less than the second in which the online
\* test counts: the clock is seen to advance only while every task waits
\* for a peer (a frame, a request, room in an inbox) or for a lock.
ClockMayAdvance == ~ENABLED Working

Tick(d) ==
  /\ ClockMayAdvance
  /\ now + d <= MaxNow
  /\ now' = now + d
  /\ ws_out' = Quiet /\ metrics_tx' = NoBroadcast /\ http_out' = NoResponse /\ api_out' = NoApiOut
  /\ UNCHANGED <<config, agent_metrics, agent_connections, metrics_raw, pc,
                 authenticated_server_id, cur, inbox, upd, del, api>>
  /\ dash_out' = DashQuiet
  /\ history_out' = NoHistory
  /\ UNCHANGED <<metrics_hourly, metrics_daily, config_file, agent, to_hub>>
  /\ to_agent' = Deliver(to_agent, ws_out')
  /\ UNCHANGED dash

\* ----------------------------------------------------------- specifications

\* frames an agent connection may deliver
HubFrames ==
  AuthFrames \cup {MetricsFrame(Some(SampleA)), MetricsFrame(None)} \cup OtherFrames \cup EndFrames

\* Spec: the session layer, two concurrent agent connections.
Next ==
  \/ \E s \in Sessions, f \in HubFrames : Recv(s, f)
  \/ \E s \in Sessions : AuthCheck(s)
  \/ \E s \in Sessions : AuthRegister(s)
  \/ \E s \in Sessions, ok \in BOOLEAN : StoreMetrics(s, ok)
  \/ \E s \in Sessions, w \in WriteOutcomes : UpdateConfig(s, w)
  \/ \E s \in Sessions : UpdateRegistry(s)
  \/ \E s \in Sessions : BroadcastSample(s)
  \/ \E s \in Sessions : CleanupRemove(s)
  \/ \E s \in Sessions : CleanupConfig(s)
  \/ \E s \in Sessions : CleanupBroadcast(s)

Spec == Init /\ [][Next]_vars

\* the steps a session task takes on its own once the lock it needs is free
HubSteps(s) ==
  \/ AuthCheck(s)
  \/ AuthRegister(s)
  \/ \E ok \in BOOLEAN : StoreMetrics(s, ok)
  \/ \E w \in WriteOutcomes : UpdateConfig(s, w)
  \/ UpdateRegistry(s)
  \/ BroadcastSample(s)
  \/ CleanupRemove(s)
  \/ CleanupConfig(s)
  \/ CleanupBroadcast(s)

\* SpecFair: Spec with the scheduling of the runtime: a session task that
\* can take a step of its own is eventually run.  Nothing is assumed about
\* the peers: a connection may stay silent for ever.
SpecFair == Spec /\ \A s \in Sessions : WF_vars(HubSteps(s))

\* SpecIngest: one agent connection, the wall clock, the snapshot requests
\* and delete_server, on a disk that takes every write of the config file.
Solo == {"A"}

NextIngest ==
  \/ \E s \in Solo, f \in HubFrames : Recv(s, f)
  \/ \E s \in Solo : AuthCheck(s)
  \/ \E s \in Solo : AuthRegister(s)
  \/ \E s \in Solo, ok \in BOOLEAN : StoreMetrics(s, ok)
  \/ \E s \in Solo : UpdateConfig(s, "ok")
  \/ \E s \in Solo : UpdateRegistry(s)
  \/ \E s \in Solo : BroadcastSample(s)
  \/ \E s \in Solo : CleanupRemove(s)
  \/ \E s \in Solo : CleanupConfig(s)
  \/ \E s \in Solo : CleanupBroadcast(s)
  \/ \E kind \in {"attach", "all"} : SnapshotBegin(kind)
  \/ SnapshotConfig
  \/ SnapshotCompose
  \/ \E id \in ServerIds : DeleteBegin(id)
  \/ DeleteConfig("ok")
  \/ DeleteMetrics
  \/ \E d \in TickSteps : Tick(d)

SpecIngest == Init /\ [][NextIngest]_vars

\* SpecCommands: two agent connections that authenticate and disconnect
\* (the first also by a read error or the end of its stream), and the
\* update handler.
CloseFrame == Frame("close", FALSE, "", NULL, NULL, None)
FramesA == { AuthFrame(id, TokenOf(id)) : id \in ServerIds } \cup EndFrames
FramesB == { AuthFrame("srv-1", TokenOf("srv-1")), CloseFrame }

NextCommands ==
  \/ \E f \in FramesA : Recv("A", f)
  \/ \E f \in FramesB : Recv("B", f)
  \/ \E s \in Sessions, ok \in BOOLEAN : ForwardCommand(s, ok)
  \/ \E s \in Sessions : AuthCheck(s)
  \/ \E s \in Sessions : AuthRegister(s)
  \/ \E s \in Sessions : CleanupRemove(s)
  \/ \E s \in Sessions : CleanupConfig(s)
  \/ \E s \in Sessions : CleanupBroadcast(s)
  \/ \E id \in ServerIds, url \in DownloadUrls : UpdateBegin(id, url)
  \/ UpdateLookup
  \/ UpdateSend
  \/ UpdateWake

SpecCommands == Init /\ [][NextCommands]_vars

\* SpecCommandsFair: SpecCommands with the scheduling of the runtime: a
\* session task or the update handler that can take a step of its own is
\* eventually run.  Nothing is assumed about the peers: an agent may stop
\* reading its socket, so that its session never forwards a command.
SpecCommandsFair ==
  /\ SpecCommands
  /\ \A s \in Sessions : WF_vars(HubSteps(s))
  /\ WF_vars(UpdateLookup \/ UpdateSend \/ UpdateWake)

\* SpecDashboard: one agent connection that authenticates and reports, two
\* dashboard connections, and the background job.
FramesReporting == { AuthFrame("srv-1", TokenOf("srv-1")), MetricsFrame(Some(SampleA)) }

NextDashboard ==
  \/ \E f \in FramesReporting : Recv("A", f)
  \/ AuthCheck("A")
  \/ AuthRegister("A")
  \/ \E ok \in BOOLEAN : StoreMetrics("A", ok)
  \/ \E w \in WriteOutcomes : UpdateConfig("A", w)
  \/ UpdateRegistry("A")
  \/ BroadcastSample("A")
  \/ \E d \in Dashboards : DashAttach(d)
  \/ \E d \in Dashboards : DashConfig(d)
  \/ \E d \in Dashboards : DashSnapshot(d)
  \/ \E d \in Dashboards, ok \in BOOLEAN : DashForward(d, ok)
  \/ BackgroundTick

SpecDashboard == Init /\ [][NextDashboard]_vars

\* SpecRecord: one agent connection that authenticates and reports samples
\* with and without a version and addresses, on a disk that may fail.
FramesRecord ==
  { AuthFrame(id, TokenOf(id)) : id \in ServerIds } \cup
  { MetricsFrame(Some(m)) : m \in Samples }

NextRecord ==
  \/ \E f \in FramesRecord : Recv("A", f)
  \/ AuthCheck("A")
  \/ AuthRegister("A")
  \/ \E ok \in BOOLEAN : StoreMetrics("A", ok)
  \/ \E w \in WriteOutcomes : UpdateConfig("A", w)
  \/ UpdateRegistry("A")
  \/ BroadcastSample("A")

SpecRecord == Init /\ [][NextRecord]_vars

\* SpecAgent: the agent process and the update commands it is sent.  A file
\* left by an earlier update may lie beside the executable.
AgentStarts ==
  { [AgentStart EXCEPT !.new = n, !.backup = b] :
      n \in {Absent, File("partial", FALSE)}, b \in {Absent, File("stale", TRUE)} }

InitAgent ==
  /\ InitHub
  /\ metrics_raw = NoRows
  /\ metrics_hourly = << >>
  /\ metrics_daily = << >>
  /\ agent \in AgentStarts

NextAgent ==
  \/ \E kind \in {"metrics", "ping"} : AgentSend(kind)
  \/ \E url \in DownloadUrls, ok \in BOOLEAN : AgentRecvUpdate(url, ok)
  \/ \E r \in {"ok", "http", "write"} : AgentDownload(r)
  \/ \E r \in {"ok", "no_metadata", "failed"} : AgentSetPermissions(r)
  \/ \E ok \in BOOLEAN, cleaned \in BOOLEAN : AgentBackup(ok, cleaned)
  \/ \E ok \in BOOLEAN, restored \in BOOLEAN : AgentInstall(ok, restored)
  \/ \E ok \in BOOLEAN : AgentRemoveBackup(ok)
  \/ \E ok \in BOOLEAN : AgentRestart(ok)
  \/ AgentExit

SpecAgent == InitAgent /\ [][NextAgent]_vars

\* SpecReconnect: the agent process from the start of `run`, against a hub
\* that is not part of the model: connections are refused or accepted, and
\* what the agent reads on them is arbitrary.
AgentBoot == [AgentStart EXCEPT !.pc = "connect", !.conn = "none"]

\* the credentials in the agent's config file: those of srv-1, a token that
\* is not the server's, an id the hub does not know
AgentCreds ==
  { [server_id |-> "srv-1", token |-> TokenOf("srv-1")],
    [server_id |-> "srv-1", token |-> WrongToken],
    [server_id |-> UnknownId, token |-> TokenOf("srv-1")] }

InitReconnect ==
  /\ InitHub
  /\ metrics_raw = NoRows
  /\ metrics_hourly = << >>
  /\ metrics_daily = << >>
  /\ \E c \in AgentCreds : agent = [AgentBoot EXCEPT !.cred = c]

Timeout == Msg("timeout", NoOut)

NextReconnect ==
  \/ \E r \in {"refused", "peer"} : AgentConnect(r)
  \/ \E ok \in BOOLEAN : AgentSendAuth(ok)
  \/ \E m \in PeerMessages \cup {Timeout} : AgentAuthResponse(m)
  \/ \E kind \in {"metrics", "ping"} : AgentSend(kind)
  \/ \E kind \in {"metrics", "ping"} : AgentSendFails(kind)
  \/ \E m \in PeerMessages : AgentRecv(m)
  \/ AgentSleepDone

SpecReconnect == InitReconnect /\ [][NextReconnect]_vars

\* SpecReconnectFair: SpecReconnect, and a sleep that has begun ends.
SpecReconnectFair == SpecReconnect /\ WF_vars(AgentSleepDone)

\* SpecLink: the agent process composed with the hub: its connections are
\* accepted as sessions of the hub (or refused), what it writes is read by
\* the session and what the session writes is read by the agent.
InitLink ==
  /\ InitHub
  /\ metrics_raw = NoRows
  /\ metrics_hourly = << >>
  /\ metrics_daily = << >>
  /\ \E c \in AgentCreds : agent = [AgentBoot EXCEPT !.cred = c]

NextLink ==
  \/ \E r \in {"refused"} \cup Sessions : AgentConnect(r)
  \/ \E ok \in BOOLEAN : AgentSendAuth(ok)
  \/ \E m \in Incoming \cup {Timeout} : AgentAuthResponse(m)
  \/ \E kind \in {"metrics", "ping"} : AgentSend(kind)
  \/ \E kind \in {"metrics", "ping"} : AgentSendFails(kind)
  \/ \E m \in Incoming : AgentRecv(m)
  \/ AgentSleepDone
  \/ \E s \in Sessions : RecvFromAgent(s)
  \/ \E s \in Sessions : AuthCheck(s)
  \/ \E s \in Sessions : AuthRegister(s)
  \/ \E s \in Sessions, ok \in BOOLEAN : StoreMetrics(s, ok)
  \/ \E s \in Sessions : UpdateConfig(s, "ok")
  \/ \E s \in Sessions : UpdateRegistry(s)
  \/ \E s \in Sessions : BroadcastSample(s)
  \/ \E s \in Sessions : CleanupRemove(s)
  \/ \E s \in Sessions : CleanupConfig(s)
  \/ \E s \in Sessions : CleanupBroadcast(s)

SpecLink == InitLink /\ [][NextLink]_vars

\* SpecStore: a store that was filled before the hub started, the history
\* queries and the hourly aggregation job.

\* seconds between two samples of an agent: default_interval(), and a
\* configured interval of a minute
SamplingIntervals == {1, 60}

\* how many samples of srv-1 the store holds, by interval: half an hour of
\* one per second, twenty-five hours of one per minute
SamplesKept(i) == IF i = 1 THEN 1800 ELSE 1500

\* the raw table after srv-1 reported every i seconds until the hub was
\* stopped, and srv-2 three times
RawRows(i) ==
  LET keys == {<<"srv-1", StartedAt - k * i>> : k \in 1..SamplesKept(i)} \cup
              {<<"srv-2", StartedAt - a>> : a \in {30, 4000, 90000}}
  IN [k \in keys |-> [cpu_usage |-> k[2] % 60]]

\* an hourly row that is `age` hours old, a daily row that is `age` days old
OldHourly(id, age) ==
  [server_id |-> id, hour_start |-> HourStart(StartedAt) - Hours(age),
   cpu_avg |-> [sum |-> age, n |-> 1]]
OldDaily(id, age) ==
  [server_id |-> id, date |-> DateOf(StartedAt) - age, cpu_avg |-> [sum |-> age, n |-> 1]]

HourlyTables ==
  { << >>,
    <<OldHourly("srv-1", 100), OldHourly("srv-2", 3), OldHourly("srv-1", 2),
      OldHourly("srv-1", 169), OldHourly("srv-1", 1), OldHourly("srv-1", 167)>> }

DailyTables ==
  { << >>,
    <<OldDaily("srv-1", 29), OldDaily("srv-1", 400), OldDaily("srv-2", 5),
      OldDaily("srv-1", 0), OldDaily("srv-1", 31), OldDaily("srv-1", 30),
      OldDaily("srv-1", 364), OldDaily("srv-1", 366), OldDaily("srv-1", 365)>> }

InitStore ==
  /\ InitHub
  /\ \E i \in SamplingIntervals : metrics_raw = RawRows(i)
  /\ metrics_hourly \in HourlyTables
  /\ metrics_daily \in DailyTables
  /\ agent = AgentStart

\* the range strings of a history query; "6h" is one the handler does not know
Ranges == {"1h", "24h", "7d", "30d", "1y", "6h"}

NextStore ==
  \/ \E id \in ServerIds, range \in Ranges : GetHistory(id, range)
  \/ AggregateHourly

SpecStore == InitStore /\ [][NextStore]_vars

\* =================================================================== claims

\* C1 -- Auth gating: a frame with type=metrics read on a session that has
\* not authenticated is discarded.  The step that reads it inserts no raw
\* row, leaves the registry and the server records alone, broadcasts no
\* snapshot, and leaves the session at the head of its loop with no frame
\* in progress, so no later step works on that frame either.
C1_AuthGating ==
  [][\A s \in Sessions, f \in MetricsFrames :
       (authenticated_server_id[s] = NULL /\ Recv(s, f)) =>
         /\ metrics_raw' = metrics_raw
         /\ agent_metrics' = agent_metrics
         /\ config' = config
         /\ ~metrics_tx'.sent
         /\ pc'[s] = "loop"
         /\ cur'[s] = NoFrame]_vars

\* a metrics frame has just been refused on an unauthenticated session
C1_Witness ==
  \E s \in Sessions :
    /\ ws_out[s] = NotAuthenticated
    /\ authenticated_server_id[s] = NULL
    /\ pc[s] = "loop"

\* C2 -- At most one session per id: a later registration for the same
\* server_id replaces the earlier one in agent_connections, and the CLEANUP
\* of a session removes no entry that holds another session's inbox, so the
\* lookup of that server_id still finds the newer session.
C2_CleanupKeepsNewer ==
  [][\A s \in Sessions :
       /\ AuthRegister(s) =>
            /\ cur[s].server_id \in DOMAIN agent_connections'
            /\ agent_connections'[cur[s].server_id] = s
       /\ CleanupRemove(s) =>
            \A id \in DOMAIN agent_connections :
              agent_connections[id] # s =>
                /\ id \in DOMAIN agent_connections'
                /\ agent_connections'[id] = agent_connections[id]]_vars

\* C3 -- A rejected auth frame on a CONNECTED session: once the hub has
\* written the frame with status "error", the session is closed (its task
\* is over, it reads no further frame) and no inbox is registered for it.
C3_RejectedAuthCloses ==
  \A s \in Sessions :
    (/\ authenticated_server_id[s] = NULL
     /\ ws_out[s] \in {AuthError("Invalid token"), AuthError("Server not found")}) =>
      /\ pc[s] = "done"
      /\ \A id \in DOMAIN agent_connections : agent_connections[id] # s

\* C9 -- Order within a session.  A new frame is taken up only at the head
\* of the loop.  For an accepted metrics frame the session's steps are, in
\* this order and with the same frame in progress: persist (the only step
\* that touches the raw table), record update, registry upsert with this
\* frame's sample and the current time, broadcast of a snapshot carrying
\* that registry; only then is the session back at the head of the loop.
C9_FrameOrder ==
  [][\A s \in Sessions :
       LET id == authenticated_server_id[s]
           moved == pc'[s] # pc[s] IN
       /\ (cur'[s] # cur[s] /\ cur'[s] # NoFrame) => pc[s] = "loop"
       /\ (pc[s] = "loop" /\ pc'[s] \in {"m_cfg", "m_reg", "m_bcast"}) => FALSE
       /\ (pc[s] = "m_db" /\ moved) =>
            /\ pc'[s] = "m_cfg" /\ cur'[s] = cur[s]
            /\ DOMAIN metrics_raw' \in {DOMAIN metrics_raw,
                                      DOMAIN metrics_raw \cup {<<id, cur[s].metrics[1].timestamp>>}}
            /\ agent_metrics' = agent_metrics /\ ~metrics_tx'.sent
       /\ (pc[s] = "m_cfg" /\ moved) =>
            /\ pc'[s] = "m_reg" /\ cur'[s] = cur[s]
            /\ metrics_raw' = metrics_raw /\ agent_metrics' = agent_metrics /\ ~metrics_tx'.sent
       /\ (pc[s] = "m_reg" /\ moved) =>
            /\ pc'[s] = "m_bcast" /\ cur'[s] = cur[s]
            /\ id \in DOMAIN agent_metrics'
            /\ agent_metrics'[id] = [metrics |-> cur[s].metrics[1], last_updated |-> now]
            /\ metrics_raw' = metrics_raw /\ ~metrics_tx'.sent
       /\ (pc[s] = "m_bcast" /\ moved) =>
            /\ pc'[s] = "loop" /\ cur'[s] = NoFrame
            /\ metrics_tx'.sent /\ metrics_tx'.by = s /\ metrics_tx'.trigger = "ingest"
            /\ metrics_tx'.msg.servers[id].metrics = Some(agent_metrics[id].metrics)
            /\ metrics_raw' = metrics_raw /\ agent_metrics' = agent_metrics
       /\ (moved /\ pc[s] \notin {"m_db", "m_reg", "m_bcast"}) =>
            /\ metrics_raw' = metrics_raw /\ agent_metrics' = agent_metrics
            /\ ~(metrics_tx'.sent /\ metrics_tx'.trigger = "ingest")]_vars

\* a session is back at the head of its loop right after the broadcast of a
\* sample that it persisted and put in the registry
C9_Witness ==
  \E s \in Sessions :
    /\ pc[s] = "loop"
    /\ metrics_tx.sent /\ metrics_tx.by = s /\ metrics_tx.trigger = "ingest"
    /\ <<authenticated_server_id[s], SampleA.timestamp>> \in DOMAIN metrics_raw
    /\ agent_metrics[authenticated_server_id[s]].metrics = SampleA

\* the registry holds an entry for id that is less than 30 s old
WithinWindow(id) ==
  /\ id \in DOMAIN agent_metrics
  /\ now - agent_metrics[id].last_updated < 30 * 1000

C8_DisconnectSnapshot ==
  [][\A s \in Sessions :
       LET id == authenticated_server_id[s] IN
       /\ (pc[s] # "done" /\ pc'[s] = "done" /\ id # NULL) =>
            /\ pc[s] = "c_met"
            /\ metrics_tx'.sent /\ metrics_tx'.by = s /\ metrics_tx'.trigger = "disconnect"
            /\ DOMAIN metrics_tx'.msg.servers = DOMAIN config
            /\ id \in DOMAIN config => ~metrics_tx'.msg.servers[id].online
       /\ (pc[s] \in {"loop", "c_conn", "c_cfg"} /\ pc'[s] \in {"c_conn", "c_cfg", "c_met"}
           /\ pc'[s] # pc[s]) => ~metrics_tx'.sent
       /\ (pc[s] = "loop" /\ pc'[s] \notin {"loop", "auth_cfg", "m_db"} /\ id # NULL) =>
            pc'[s] = "c_conn"
       /\ (pc[s] = "c_conn" /\ pc'[s] # pc[s]) => pc'[s] = "c_cfg"
       /\ (pc[s] = "c_cfg" /\ pc'[s] # pc[s]) => pc'[s] = "c_met"
       /\ pc[s] = "done" => pc'[s] = "done"]_vars

\* a CLEANUP has just broadcast its snapshot with the leaving server
\* offline although that server's registry entry is still inside the window
C8_Witness ==
  /\ metrics_tx.sent /\ metrics_tx.trigger = "disconnect"
  /\ pc[metrics_tx.by] = "done"
  /\ LET id == authenticated_server_id[metrics_tx.by] IN
       /\ id \in DOMAIN config
       /\ ~metrics_tx.msg.servers[id].online
       /\ WithinWindow(id)

\* C10 -- Persistence failure: a metrics frame whose store call changes
\* nothing (the store refused it) goes on exactly like an accepted one: the
\* next step is the record update of the same frame, the registry step
\* upserts the sample with the current time, and the broadcast step sends a
\* snapshot in which the server (as long as it is configured) is online;
\* the session's binding is not touched and it returns to its loop.
C10_StoreFailureAccepted ==
  [][\A s \in Sessions :
       LET id == authenticated_server_id[s] IN
       /\ (pc[s] = "m_db" /\ pc'[s] # "m_db" /\ metrics_raw' = metrics_raw) =>
            /\ pc'[s] = "m_cfg" /\ cur'[s] = cur[s]
            /\ authenticated_server_id'[s] = id
       /\ (pc[s] = "m_cfg" /\ pc'[s] # "m_cfg") =>
            /\ pc'[s] = "m_reg" /\ cur'[s] = cur[s]
            /\ authenticated_server_id'[s] = id
       /\ (pc[s] = "m_reg" /\ pc'[s] # "m_reg") =>
            /\ pc'[s] = "m_bcast" /\ cur'[s] = cur[s]
            /\ id \in DOMAIN agent_metrics'
            /\ agent_metrics'[id] = [metrics |-> cur[s].metrics[1], last_updated |-> now]
            /\ authenticated_server_id'[s] = id
       /\ (pc[s] = "m_bcast" /\ pc'[s] # "m_bcast") =>
            /\ pc'[s] = "loop"
            /\ metrics_tx'.sent /\ metrics_tx'.trigger = "ingest"
            /\ id \in DOMAIN config => metrics_tx'.msg.servers[id].online
            /\ authenticated_server_id'[s] = id /\ id # NULL]_vars

\* a snapshot showing the server online has just been broadcast for a
\* sample of which the raw table holds no row
C10_Witness ==
  /\ metrics_tx.sent /\ metrics_tx.trigger = "ingest"
  /\ LET s  == metrics_tx.by
         id == authenticated_server_id[metrics_tx.by] IN
       /\ pc[s] = "loop"
       /\ <<id, SampleA.timestamp>> \notin DOMAIN metrics_raw
       /\ id \in DOMAIN agent_metrics
       /\ agent_metrics[id] = [metrics |-> SampleA, last_updated |-> now]
       /\ id \in DOMAIN config
       /\ metrics_tx.msg.servers[id].online

C6_NonBlockingEnqueue ==
  [][(/\ upd.pc = "u_send"
      /\ pc[upd.sender] # "done"
      /\ Len(inbox[upd.sender]) = InboxCapacity
      /\ upd' # upd) =>
        /\ upd'.pc = "idle"
        /\ http_out' = [success |-> FALSE, message |-> "Failed to send update command"]
        /\ inbox' = inbox]_vars

\* C7 -- Agent not connected: an update request for a server_id for which
\* agent_connections holds no inbox is answered success:false "Agent is not
\* connected" by the lookup step and no inbox changes.
C7_NotConnected ==
  [][(/\ upd.pc = "u_conn"
      /\ upd' # upd
      /\ upd.server_id \notin DOMAIN agent_connections) =>
        /\ upd'.pc = "idle"
        /\ http_out' = [success |-> FALSE, message |-> "Agent is not connected"]
        /\ inbox' = inbox]_vars

\* "Agent is not connected" has just been answered for the server_id of a
\* session that had authenticated and has since disconnected
C7_Witness ==
  /\ http_out = [success |-> FALSE, message |-> "Agent is not connected"]
  /\ \E s \in Sessions :
       /\ pc[s] = "done"
       /\ authenticated_server_id[s] # NULL
       /\ authenticated_server_id[s] \notin DOMAIN agent_connections

\* the last n elements of a sequence
LastN(q, n) == IF Len(q) <= n THEN q ELSE SubSeq(q, Len(q) - n + 1, Len(q))

\* C11 -- Lossy fan-out: a send to a receiver that already has the whole
\* capacity unread costs that receiver its oldest unread frame only; a
\* subscriber that has lost frames stays subscribed, its next turn forwards
\* the oldest frame it still has, and it goes on receiving; a turn of one
\* subscriber changes nothing for another subscriber.
C11_LossyFanOut ==
  [][\A d \in Dashboards :
       /\ (metrics_tx'.sent /\ Subscribed(d)) =>
            dash'[d].rx.unread =
              LastN(Append(dash[d].rx.unread, metrics_tx'.msg), BroadcastCapacity)
       /\ (dash[d].rx.lagged /\ DashForward(d, TRUE)) =>
            /\ dash'[d].pc = "fwd"
            /\ dash_out'[d] = Head(dash[d].rx.unread)
       /\ (\E ok \in BOOLEAN : DashForward(d, ok)) =>
            \A e \in Dashboards \ {d} : dash'[e] = dash[e]]_vars

\* C12 -- Attach, then forward in order.  A dashboard is subscribed from
\* the step that accepts it and nothing is written to it before its initial
\* snapshot; the initial snapshot has one entry per configured server, each
\* with the registry's current sample, and carries the site settings; every
\* value broadcast while the dashboard is subscribed and has room is queued
\* behind the ones it has not read; a forwarding turn writes the oldest
\* unread value and removes exactly that one; no broadcast value carries
\* site settings.
C12_AttachThenInOrder ==
  [][\A d \in Dashboards :
       /\ DashAttach(d) => (dash'[d].pc = "cfg" /\ dash'[d].rx = NoReceiver)
       /\ dash[d].pc \in {"off", "cfg"} => dash_out'[d] = NoDashOut
       /\ (dash[d].pc = "met" /\ dash'[d].pc # "met") =>
            /\ dash'[d].pc = "fwd"
            /\ dash_out'[d].type = "metrics"
            /\ dash_out'[d].site_settings = TRUE
            /\ DOMAIN dash_out'[d].servers = DOMAIN config
            /\ \A id \in DOMAIN config :
                 dash_out'[d].servers[id].metrics =
                   IF id \in DOMAIN agent_metrics
                     THEN Some(agent_metrics[id].metrics) ELSE None
       /\ (/\ metrics_tx'.sent
           /\ dash[d].pc \in {"cfg", "met", "fwd"}
           /\ Len(dash[d].rx.unread) < BroadcastCapacity) =>
            /\ dash'[d].rx.unread = Append(dash[d].rx.unread, metrics_tx'.msg)
            /\ dash'[d].rx.lagged = dash[d].rx.lagged
       /\ (dash[d].pc = "fwd" /\ dash_out'[d] # NoDashOut) =>
            /\ ~dash[d].rx.lagged
            /\ dash_out'[d] = Head(dash[d].rx.unread)
            /\ dash'[d].rx.unread = Tail(dash[d].rx.unread)
            /\ dash'[d].pc = "fwd"
       /\ (metrics_tx'.sent /\ "site_settings" \in DOMAIN metrics_tx'.msg) =>
            metrics_tx'.msg.site_settings = FALSE]_vars

\* a dashboard that is forwarding has just been written the snapshot of an
\* accepted sample while a later, different broadcast waits behind it
C12_Witness ==
  \E d \in Dashboards :
    /\ dash[d].pc = "fwd"
    /\ dash_out[d] = DashboardMessage(IngestUpdates(config, agent_metrics, now), FALSE)
    /\ "srv-1" \in DOMAIN agent_metrics
    /\ dash[d].rx.unread # << >>
    /\ Head(dash[d].rx.unread) = LocalMetrics(now)

\* C13 -- Handshake timeout: a session that has not authenticated within
\* 10 s of its accept (every session is accepted at time 0) has been closed
\* by the hub.
C13_HandshakeTimeout ==
  \A s \in Sessions :
    (authenticated_server_id[s] = NULL /\ now > 10 * 1000) => pc[s] = "done"

\* C14 -- Liveness timer: an authenticated session whose peer has gone
\* silent (from some point on no frame, hence no pong, arrives on it) is
\* eventually closed by the hub and has run its CLEANUP.
C14_LivenessTimer ==
  \A s \in Sessions :
    (/\ <>(authenticated_server_id[s] # NULL)
     /\ <>[][~(\E f \in HubFrames : Recv(s, f))]_vars)
      => <>(pc[s] = "done")

\* C15 -- Binding fixed at handshake: once a session is bound to a
\* server_id no step changes that binding, and every raw row and registry
\* entry a session writes is written under its binding.
C15_BindingFixed ==
  [][\A s \in Sessions :
       LET id == authenticated_server_id[s] IN
       /\ id # NULL => authenticated_server_id'[s] = id
       /\ (\E ok \in BOOLEAN : StoreMetrics(s, ok)) =>
            DOMAIN metrics_raw' \subseteq DOMAIN metrics_raw \cup {<<id, cur[s].metrics[1].timestamp>>}
       /\ UpdateRegistry(s) => DOMAIN agent_metrics' = DOMAIN agent_metrics \cup {id}]_vars

\* C16 -- Sink validity: every entry of agent_connections holds the inbox
\* of a session whose task has not returned and which is bound to that
\* server_id.
C16_SinkValidity ==
  \A id \in DOMAIN agent_connections :
    LET s == agent_connections[id] IN
    /\ pc[s] # "done"
    /\ authenticated_server_id[s] = id

\* C17 -- CLEANUP empties the registry: when the only session bound to a
\* server_id has completed its CLEANUP, neither agent_connections nor
\* agent_metrics holds an entry for that server_id.
C17_CleanupEmptiesRegistry ==
  \A s \in Sessions :
    LET id == authenticated_server_id[s] IN
    (/\ pc[s] = "done"
     /\ id # NULL
     /\ \A t \in Sessions \ {s} : authenticated_server_id[t] # id) =>
      /\ id \notin DOMAIN agent_connections
      /\ id \notin DOMAIN agent_metrics

\* C18 -- Tick trigger: a turn of the background job broadcasts nothing
\* when no agent is registered, and a composed DashboardMessage otherwise.
C18_TickOnlyWhenRegistered ==
  [][BackgroundTick =>
       IF DOMAIN agent_connections = {}
         THEN ~metrics_tx'.sent
         ELSE /\ metrics_tx'.sent
              /\ "servers" \in DOMAIN metrics_tx'.msg
              /\ DOMAIN metrics_tx'.msg.servers = DOMAIN config]_vars

\* C19 -- Lock order: no task that holds the registry lock (agent_metrics)
\* goes on to acquire the config lock; whoever needs both takes the config
\* lock first.
C19_LockOrder ==
  \A s \in Sessions : ~(HoldsMetricsLock(s) /\ AwaitsConfigLock(s))

\* C20 -- Error containment: a session that has presented valid
\* credentials, and has no command of its own waiting, gets registered
\* whatever the other sessions do or fail to do.  Checked in the weaker
\* form that lets it wait as long as another session task is busy: it may
\* not wait for ever while every other session is at rest, at the head of
\* its loop or closed.
C20_Containment ==
  \A s \in Sessions :
    (pc[s] = "auth_conn" /\ inbox[s] = << >>) ~>
      (\/ pc[s] # "auth_conn"
       \/ \E t \in Sessions \ {s} : pc[t] \notin {"loop", "done"})

\* C21 -- Agent self-update rollback: when handle_update_command has
\* returned after a call of the update failed (the download, setting the
\* permission, the rename of the executable to <self>.backup, or the rename
\* of <self>.new to <self>), the path <self> holds the original binary.
C21_RollbackRestoresOriginal ==
  (agent.pc = "run" /\ \E i \in DOMAIN agent.log : ~agent.log[i].ok) =>
    agent.exe = File("old", TRUE)

\* the place of a call in the stated order of the update
C22_Place(call) ==
  CASE call = "download"  -> 1
    [] call = "metadata"  -> 2
    [] call = "chmod"     -> 2
    [] call = "backup"    -> 3
    [] call = "install"   -> 4
    [] call = "rm_backup" -> 5
    [] call = "restart"   -> 6
    [] call = "exit"      -> 7
    [] OTHER              -> 0

\* C22 -- Agent self-update step order: the calls of an update are made in
\* the order fetch to <self>.new, set the executable permission, rename the
\* executable to <self>.backup, rename <self>.new to <self>, remove the
\* backup, restart hook, exit.  When the process has exited and every call
\* succeeded, all seven were made, <self> is the new binary with the
\* executable permission, and neither <self>.new nor <self>.backup
\* exists.  From the moment the command is taken the process writes no
\* frame to the hub, and after the exit it does nothing at all.
C22_StepOrder ==
  [][/\ \A i, j \in DOMAIN agent'.log :
          i < j => C22_Place(agent'.log[i].call) < C22_Place(agent'.log[j].call)
     /\ (agent'.pc = "exited" /\ \A i \in DOMAIN agent'.log : agent'.log[i].ok) =>
          /\ [i \in DOMAIN agent'.log |-> agent'.log[i].call] =
               <<"download", "chmod", "backup", "install", "rm_backup", "restart", "exit">>
          /\ agent'.exe = File("new", TRUE)
          /\ agent'.new = Absent
          /\ agent'.backup = Absent
     /\ agent.pc # "run" => agent'.out = "none"
     /\ agent.pc = "exited" => agent' = agent]_vars

\* the process has exited after an update in which every call succeeded
C22_Witness ==
  /\ agent.pc = "exited"
  /\ \A i \in DOMAIN agent.log : agent.log[i].ok
  /\ agent.exe = File("new", TRUE)

\* C23 -- Range decimation: whatever raw rows the store holds for a server
\* (one row per second included), the answer to a 24h history query has at
\* most ceil(24*60/5) = 288 rows plus a tolerance of 12 (the 280..300 of
\* the acceptance scenario).
C23_Decimation ==
  (history_out.sent /\ history_out.range = "24h") =>
    Len(history_out.data) <= (24 * 60) \div 5 + 12

\* the rows a history answer must hold, as pairs <<timestamp, value>>: by
\* range, the table and the window, for the server of the query
C24_Rows(id, range, t) ==
  LET raw    == {k \in DOMAIN metrics_raw : k[1] = id}
      hourly == {metrics_hourly[i] : i \in DOMAIN metrics_hourly}
      daily  == {metrics_daily[i] : i \in DOMAIN metrics_daily}
      Day(r) == r.date * 86400
  IN CASE range = "1h" ->
            {<<k[2], metrics_raw[k].cpu_usage>> : k \in {k \in raw : k[2] >= t - 3600}}
       [] range = "24h" ->
            {<<k[2], metrics_raw[k].cpu_usage>> :
               k \in {k \in raw : k[2] >= t - 24 * 3600 /\ k[2] % 300 < 60}}
       [] range = "7d" ->
            {<<r.hour_start, r.cpu_avg>> :
               r \in {r \in hourly : r.server_id = id /\ r.hour_start >= t - 7 * 86400}}
       [] range = "30d" ->
            {<<r.date, r.cpu_avg>> :
               r \in {r \in daily : r.server_id = id /\ Day(r) + 86400 > t - 30 * 86400}}
       [] OTHER ->
            {<<r.date, r.cpu_avg>> :
               r \in {r \in daily : r.server_id = id /\ Day(r) + 86400 > t - 365 * 86400}}

\* C24 -- History range mapping: the answer to a history query holds
\* exactly the rows of the requested server that lie in the window of the
\* range -- 1h: raw rows of the last hour; 24h: raw rows of the last 24
\* hours that pass the decimation selector; 7d: hourly rows of the last 7
\* days; 30d: daily rows of the last 30 days; 1y or any other string:
\* daily rows of the last 365 days -- and holds them in ascending time
\* order.
C24_RangeMapping ==
  history_out.sent =>
    LET d == history_out.data IN
      /\ \A i \in 1..(Len(d) - 1) : d[i].timestamp < d[i + 1].timestamp
      /\ {<<d[i].timestamp, d[i].cpu>> : i \in DOMAIN d} =
           C24_Rows(history_out.server_id, history_out.range, StartedAt + now \div 1000)

\* a 30d query was answered with the three daily rows of srv-1 that are at
\* most 30 days old, from a table that also holds older rows and a row of
\* srv-2, in an order other than that of the table
C24_Witness ==
  /\ history_out.sent /\ history_out.range = "30d" /\ history_out.server_id = "srv-1"
  /\ Len(history_out.data) = 3
  /\ Len(metrics_daily) = 9
  /\ history_out.data[1].timestamp = metrics_daily[6].date

\* C25 -- Aggregation idempotence: after aggregate_hourly has run over an
\* hour, running it again over the same hour with the raw rows unchanged
\* leaves every hourly row as it is, and the table holds one row per
\* (server_id, hour_start).
C25_AggregationIdempotent ==
  [][AggregateHourly =>
       /\ aggregate_hourly(metrics_hourly', metrics_raw',
                           HourStart(StartedAt + now' \div 1000) - 3600, ServerOrder)
            = metrics_hourly'
       /\ \A i, j \in DOMAIN metrics_hourly' :
            (/\ metrics_hourly'[i].server_id = metrics_hourly'[j].server_id
             /\ metrics_hourly'[i].hour_start = metrics_hourly'[j].hour_start) => i = j]_vars

\* the job has run over an hour for which the table already held a row of
\* srv-1: that row now carries the averages of the raw rows, and the row
\* of srv-2 was added
C25_Witness ==
  /\ Len(metrics_hourly) = 7
  /\ \E i \in DOMAIN metrics_hourly :
       /\ metrics_hourly[i].server_id = "srv-1"
       /\ metrics_hourly[i].hour_start = HourStart(StartedAt + now \div 1000) - 3600
       /\ metrics_hourly[i].cpu_avg.n > 1

\* C26 -- Atomic config rewrite: whatever happens during save_config, the
\* config file holds, after every step, either the complete document it
\* held before the step or the complete document of the new configuration.
C26_AtomicRewrite ==
  [][config_file' \in {config_file, [doc |-> config', whole |-> TRUE]}]_vars

\* C27 -- AuthRejected on missing credential: an auth frame that lacks the
\* server_id or the token is answered with a frame of type "auth" and
\* status "error", and the session leaves its loop: it is closed.
C27_MissingCredentialRejected ==
  [][\A s \in Sessions, f \in AuthFrames :
       (Recv(s, f) /\ (f.server_id = NULL \/ f.token = NULL)) =>
         /\ ws_out'[s].type = "auth"
         /\ "status" \in DOMAIN ws_out'[s] /\ ws_out'[s].status = "error"
         /\ pc'[s] \in {"c_conn", "done"}]_vars

\* C28 -- A text frame that does not parse, or whose type is not known,
\* read on an authenticated session is ignored: the session is at the head
\* of its loop with the same binding and no frame in progress, nothing is
\* written to the agent, and the raw table, the registry, the table of
\* inboxes, the server records, the config file, the inboxes and the
\* broadcast channel are as before.
C28_MalformedIgnored ==
  [][\A s \in Sessions, f \in OtherFrames :
       (authenticated_server_id[s] # NULL /\ f.ws = "text" /\ Recv(s, f)) =>
         /\ pc'[s] = "loop" /\ cur'[s] = NoFrame
         /\ authenticated_server_id' = authenticated_server_id
         /\ ws_out'[s] = NoOut
         /\ metrics_raw' = metrics_raw
         /\ agent_metrics' = agent_metrics
         /\ agent_connections' = agent_connections
         /\ config' = config /\ config_file' = config_file
         /\ inbox' = inbox
         /\ ~metrics_tx'.sent /\ dash' = dash]_vars

\* an authenticated, registered session is at the head of its loop after a
\* step that wrote nothing and sent nothing, while no request is in
\* progress and the clock stands at its start: the step was a frame that
\* the session read and did not act on
C28_Witness ==
  \E s \in Sessions :
    /\ pc[s] = "loop" /\ cur[s] = NoFrame
    /\ authenticated_server_id[s] # NULL
    /\ authenticated_server_id[s] \in DOMAIN agent_connections
    /\ agent_connections[authenticated_server_id[s]] = s
    /\ ws_out = Quiet /\ ~metrics_tx.sent /\ ~api_out.sent
    /\ api.pc = "idle" /\ del.pc = "idle" /\ now = 0

\* C29 -- An I/O error on a session (a read error, the end of the stream,
\* a failed write of a command frame) is terminal.  The step in which it
\* happens takes the session out of its loop, into the cleanup if it is
\* authenticated and to its end otherwise.  From then on the session
\* takes no frame and no command and writes nothing, and it goes through
\* the steps of the cleanup in order, each once: the removal from the
\* table of inboxes, the config lock, the disconnect broadcast.
C29_IoErrorTerminal ==
  [][\A s \in Sessions :
       LET left == {"c_conn", "c_cfg", "c_met", "done"} IN
       /\ ((\E f \in EndFrames : f.ws \in {"error", "eof"} /\ Recv(s, f))
             \/ ForwardCommand(s, FALSE)) =>
            pc'[s] = IF authenticated_server_id[s] # NULL THEN "c_conn" ELSE "done"
       /\ pc[s] \in left =>
            /\ <<pc[s], pc'[s]>> \in {<<"c_conn", "c_conn">>, <<"c_conn", "c_cfg">>,
                                      <<"c_cfg", "c_cfg">>, <<"c_cfg", "c_met">>,
                                      <<"c_met", "c_met">>, <<"c_met", "done">>,
                                      <<"done", "done">>}
            /\ cur'[s] = NoFrame
            /\ ws_out'[s] = NoOut
            /\ Len(inbox'[s]) <= Len(inbox[s]) => inbox'[s] \in {inbox[s], << >>}
       /\ (metrics_tx'.sent /\ metrics_tx'.by = s /\ metrics_tx'.trigger = "disconnect") =>
            pc[s] = "c_met" /\ pc'[s] = "done"
       /\ (pc[s] = "c_met" /\ pc'[s] = "done") => metrics_tx'.sent]_vars

\* an authenticated session has ended: its cleanup has just sent the
\* disconnect broadcast
C29_Witness ==
  \E s \in Sessions :
    /\ pc[s] = "done"
    /\ authenticated_server_id[s] # NULL
    /\ metrics_tx.sent /\ metrics_tx.by = s /\ metrics_tx.trigger = "disconnect"

\* C30 -- On an accepted metrics frame of a server that still has a
\* record: the record is changed, and the config file rewritten, exactly
\* when the sample's version (if it carries one) or the effective IP (the
\* first of ip_addresses if there is one, else the peer address of the
\* connection) differs from the record.  After the step the record's ip
\* is the effective IP and its version is the sample's when the sample
\* carries one and is as before otherwise; the token and every other
\* server record are as before.
C30_RecordUpdate ==
  [][\A s \in Sessions, w \in WriteOutcomes :
       (UpdateConfig(s, w) /\ authenticated_server_id[s] \in DOMAIN config) =>
         LET id      == authenticated_server_id[s]
             m       == cur[s].metrics[1]
             ip      == IF Len(m.ip_addresses) > 0 THEN m.ip_addresses[1] ELSE client_ip[s]
             differs == (m.version # NULL /\ m.version # config[id].version) \/ ip # config[id].ip
         IN /\ (config' # config) <=> differs
            /\ ~differs => config_file' = config_file
            /\ (differs /\ w = "ok") => config_file' = [doc |-> config', whole |-> TRUE]
            /\ DOMAIN config' = DOMAIN config
            /\ config'[id].ip = ip
            /\ config'[id].version = IF m.version # NULL THEN m.version ELSE config[id].version
            /\ config'[id].token = config[id].token
            /\ \A other \in DOMAIN config \ {id} : config'[other] = config[other]]_vars

\* the record of a server carries the version of an earlier sample and the
\* peer address of the connection, and the file holds that configuration:
\* a sample without version and addresses was accepted after one with both
C30_Witness ==
  \E s \in Sessions :
    /\ pc[s] = "m_reg"
    /\ cur[s].metrics = Some(SampleB)
    /\ authenticated_server_id[s] \in DOMAIN config
    /\ config[authenticated_server_id[s]].version = SampleA.version
    /\ config[authenticated_server_id[s]].ip = client_ip[s]
    /\ config_file = [doc |-> config, whole |-> TRUE]

\* C31 -- No online flapping after disconnect: once the only session that
\* ever bound a server has completed its CLEANUP (whose snapshot reported
\* the server offline), no snapshot -- broadcast, attach, /api/metrics/all
\* -- reports that server online.  No sample for the server can have been
\* accepted after that CLEANUP: the session has returned and no other
\* session is authenticated.
C31_NoOnlineFlapping ==
  \A s \in Sessions :
    LET id == authenticated_server_id[s] IN
    (/\ pc[s] = "done"
     /\ id # NULL
     /\ \A t \in Sessions \ {s} : authenticated_server_id[t] = NULL) =>
      /\ (metrics_tx.sent /\ "servers" \in DOMAIN metrics_tx.msg
          /\ id \in DOMAIN metrics_tx.msg.servers) =>
           ~metrics_tx.msg.servers[id].online
      /\ (api_out.sent /\ id \in DOMAIN api_out.servers) =>
           ~api_out.servers[id].online

\* a task is suspended in the acquisition of the config lock or of the
\* registry lock
AwaitsConfigOrRegistry ==
  \/ \E s \in Sessions : pc[s] \in {"auth_cfg", "m_cfg", "m_reg", "m_bcast", "c_cfg", "c_met"}
  \/ api.pc \in {"cfg", "met"}
  \/ del.pc \in {"del_cfg", "del_met"}

\* C32 -- Deadlock freedom on the config and registry locks: whenever a
\* task (an ingest, a snapshot composition, a CLEANUP, delete_server) waits
\* for the config lock or the registry lock, some task can take a step of
\* its own.  Locks are released only by such steps, so a state in which
\* tasks wait and none can step is one in which they wait for ever.
C32_DeadlockFree ==
  AwaitsConfigOrRegistry => ENABLED Working

\* C33 -- Progress of update and cleanup: a session that has left its event
\* loop eventually completes its CLEANUP, and an update handler that waits
\* for room in the inbox of a session that has left its loop eventually
\* returns.  (The claim asks it of every call of the handler; this is the
\* case it singles out.)
C33_UpdateAndCleanupProgress ==
  /\ \A s \in Sessions : (pc[s] = "c_conn") ~> (pc[s] = "done")
  /\ (upd.pc = "u_wait" /\ pc[upd.sender] \in {"c_conn", "c_cfg", "c_met", "done"})
       ~> (upd.pc = "idle")

\* the auth frame session s is checking will be rejected: its server_id is
\* not configured or its token is not the server's
C34_Rejected(s) ==
  \/ cur[s].server_id \notin DOMAIN config
  \/ config[cur[s].server_id].token # cur[s].token

\* C34 -- A rejected auth frame on an authenticated session changes nothing
\* of that session: the step that rejects it writes the auth error frame,
\* returns the session to its loop with the same bound server_id, and
\* leaves agent_connections and every inbox as they are; and a session at
\* the head of its loop that is bound takes a metrics frame with a sample
\* to the store.
C34_RejectedAuthKeepsSession ==
  [][\A s \in Sessions :
       /\ (/\ pc[s] = "auth_cfg" /\ pc'[s] # "auth_cfg"
           /\ authenticated_server_id[s] # NULL
           /\ C34_Rejected(s)) =>
            /\ pc'[s] = "loop"
            /\ authenticated_server_id'[s] = authenticated_server_id[s]
            /\ agent_connections' = agent_connections
            /\ inbox' = inbox
            /\ ws_out'[s] \in {[type |-> "auth", status |-> "error", message |-> "Invalid token"],
                               [type |-> "auth", status |-> "error", message |-> "Server not found"]}
       /\ (/\ pc[s] = "loop" /\ authenticated_server_id[s] # NULL
           /\ cur'[s].msg_type = "metrics") =>
            /\ pc'[s] = "m_db"
            /\ ws_out'[s] = [type |-> "none"]]_vars

\* a session that is bound and registered has just had an auth frame
\* rejected, and is back at the head of its loop
C34_Witness ==
  \E s \in Sessions :
    LET id == authenticated_server_id[s] IN
    /\ id # NULL
    /\ pc[s] = "loop"
    /\ "status" \in DOMAIN ws_out[s] /\ ws_out[s].status = "error"
    /\ id \in DOMAIN agent_connections /\ agent_connections[id] = s

\* C35 -- Deleted servers stay deleted: except while a delete_server is
\* between its two removals, every key of the registry agent_metrics is the
\* id of a configured server.
C35_DeletedStayDeleted ==
  del.pc # "del_met" => DOMAIN agent_metrics \subseteq DOMAIN config

\* C36 -- Sink registration precedes the auth acknowledgement: the step
\* that writes {"type":"auth","status":"ok"} to a session leaves that
\* session's inbox registered under the server_id it is bound to; and from
\* then on an entry of agent_connections is not removed as long as the
\* session it belongs to stays bound to that server_id and has not left
\* its loop (it may be replaced by another session's inbox), so that an
\* update request finds an inbox.
C36_RegisteredBeforeAck ==
  [][/\ \A s \in Sessions :
          ws_out'[s] = [type |-> "auth", status |-> "ok"] =>
            /\ authenticated_server_id'[s] \in DOMAIN agent_connections'
            /\ agent_connections'[authenticated_server_id'[s]] = s
     /\ \A id \in DOMAIN agent_connections :
          LET s == agent_connections[id] IN
          (/\ authenticated_server_id[s] = id
           /\ authenticated_server_id'[s] = id
           /\ pc[s] \notin {"c_conn", "c_cfg", "c_met", "done"}
           /\ pc'[s] \notin {"c_conn", "c_cfg", "c_met", "done"}) =>
            id \in DOMAIN agent_connections']_vars

\* C37 -- Command forwarding is FIFO and at most once, step by step: an
\* inbox changes only by a command being appended at its end, by its oldest
\* command being taken by its own session at the head of its loop, or by
\* being dropped with what it holds when the session task returns; a
\* command frame is written to a socket only by the step that takes it, to
\* the socket of the session whose inbox it was the oldest of, and that
\* step removes it; a taken command whose write fails ends the loop; a
\* session that has left its loop writes nothing.  Hence what a session
\* has written is a prefix of what was enqueued for it, in order and once.
C37_ForwardFifoOnce ==
  [][\A s \in Sessions :
       /\ inbox'[s] # inbox[s] =>
            \/ /\ Len(inbox'[s]) = Len(inbox[s]) + 1
               /\ SubSeq(inbox'[s], 1, Len(inbox[s])) = inbox[s]
               /\ "command" \in DOMAIN inbox'[s][Len(inbox'[s])]
               /\ ws_out'[s] = [type |-> "none"]
            \/ /\ inbox[s] # << >>
               /\ pc[s] = "loop"
               /\ inbox'[s] = Tail(inbox[s])
               /\ \/ ws_out'[s] = Head(inbox[s]) /\ pc'[s] = "loop"
                  \/ ws_out'[s] = [type |-> "none"] /\ pc'[s] \in {"c_conn", "done"}
            \/ /\ inbox'[s] = << >>
               /\ pc[s] # "done" /\ pc'[s] = "done"
               /\ ws_out'[s] = [type |-> "none"]
       /\ "command" \in DOMAIN ws_out'[s] =>
            /\ inbox[s] # << >>
            /\ ws_out'[s] = Head(inbox[s])
            /\ inbox'[s] = Tail(inbox[s])
            /\ \A t \in Sessions \ {s} : ws_out'[t] = [type |-> "none"] /\ inbox'[t] = inbox[t]
       /\ pc[s] \in {"c_conn", "c_cfg", "c_met", "done"} => ws_out'[s] = [type |-> "none"]]_vars

\* a session has just written the older of two different commands to its
\* agent while the newer one is still queued
C37_Witness ==
  \E s \in Sessions :
    /\ ws_out[s] = [type |-> "command", command |-> "update"]
    /\ inbox[s] = <<[type |-> "command", command |-> "update",
                     download_url |-> "https://example.test/agent"]>>
    /\ pc[s] = "loop"

C39_HandshakeDiscipline ==
  /\ [](\A s \in Sessions :
          /\ ws_out[s] # [type |-> "error", message |-> "Not authenticated"]
          /\ \A i \in 1..Len(to_agent[s]) :
               to_agent[s][i] # [type |-> "error", message |-> "Not authenticated"])
  /\ [][/\ \A s \in Sessions :
             Len(to_hub'[s]) > Len(to_hub[s]) =>
               LET f == to_hub'[s][Len(to_hub'[s])] IN
               /\ s = agent.conn
               /\ to_hub'[s] = Append(to_hub[s], f)
               /\ f.msg_type = "auth" =>
                    /\ agent.pc = "auth_send" /\ agent'.pc = "auth_wait"
                    /\ to_hub[s] = << >>
                    /\ f = [ws |-> "text", parsed |-> TRUE, msg_type |-> "auth",
                            server_id |-> agent.cred.server_id, token |-> agent.cred.token,
                            metrics |-> << >>]
               /\ f.msg_type # "auth" =>
                    \/ agent.pc = "run" /\ agent'.pc = "run" /\ f.ws \in {"text", "binary"}
                    \/ agent'.pc = "sleep" /\ agent'.conn = "none" /\ f.ws = "eof"
        /\ (agent.pc = "connect" /\ agent'.pc # "connect") => agent'.pc \in {"auth_send", "sleep"}
        /\ (agent.pc = "auth_send" /\ agent'.pc # "auth_send") =>
             \/ agent'.pc = "auth_wait" /\ Len(to_hub'[agent.conn]) = 1
             \/ agent'.pc = "sleep"
        /\ (agent.pc # "run" /\ agent'.pc = "run") =>
             /\ agent.pc = "auth_wait"
             /\ to_agent[agent.conn] # << >>
             /\ Head(to_agent[agent.conn]) = [type |-> "auth", status |-> "ok"]
             /\ to_agent'[agent.conn] = Tail(to_agent[agent.conn])
        /\ (agent.pc = "auth_wait" /\ agent'.pc \notin {"auth_wait", "run"}) =>
             /\ agent'.pc = "sleep" /\ agent'.conn = "none"
             /\ to_hub'[agent.conn] =
                  Append(to_hub[agent.conn],
                         [ws |-> "eof", parsed |-> FALSE, msg_type |-> "", server_id |-> "null",
                          token |-> "null", metrics |-> << >>])]_vars

\* a metrics frame of the agent has been ingested by the session of its
\* second connection, after a first connection it abandoned
C39_Witness ==
  /\ metrics_tx.sent /\ metrics_tx.trigger = "ingest"
  /\ agent.conn = metrics_tx.by
  /\ agent.used = Sessions
  /\ agent.pc = "run"

====
